---- MODULE Spec2Model ----
(***************************************************************************)
(* MagicDjinn: the inventory ledger (Inventory rows, Deck rows) and the    *)
(* handlers that move quantities between a user's Box, decks and users,    *)
(* the bulk / streaming importers, and the colour identity aggregate.      *)
(***************************************************************************)
EXTENDS Integers, Sequences, FiniteSets, TLC

\* ------------------------------------------------------------------ bounds
MaxId == 3        \* Inventory primary keys handed out in one behaviour
MaxQty == 3       \* largest quantity a row may reach in the ledger specification
MaxLines == 2     \* longest list handed to an importer
MaxSteps == 3     \* requests handled in one behaviour of the ledger specification
MaxImports == 2   \* Box imports in one behaviour of the import specification
MaxStreams == 2   \* streaming requests in one behaviour of the streaming specification

Users == {1, 2}
Cards == {1, 2}
DeckIds == {1, 2}
Box  == 0          \* current_deck_id = NULL
None == 0          \* .first() found nothing / column is NULL
Absent == -1       \* key missing from the request's JSON

\* ------------------------------------------------------------------ state
VARIABLES
  inv,      \* the inventory table: row id -> row
  decks,    \* the decks table: deck id -> [exists, owner, shared, ci]
  nextId,   \* next Inventory primary key
  social,   \* [group: users 1 and 2 share a FriendGroup, admins: set of users]
  op,       \* the last request handled: [name, actor, src, qty, dst, flag, out]
  result,   \* the ImportResult of the last request: [successes, failures]
  pinv,     \* the inventory table before the last request
  pdecks,   \* the decks table before the last request
  steps,    \* requests handled so far
  req,      \* the Box imports made so far: sequence of [user, text, loc]
  stream,   \* the streaming import being served: its request and position
  events    \* the NDJSON events that stream has written so far

vars == <<inv, decks, nextId, social, op, result, pinv, pdecks, steps, req, stream, events>>

\* ------------------------------------------------------------- card cache
\* Card.color_identity of the cached printings ("".join of Scryfall's list).
CardColorIdentity(c) == IF c = 1 THEN <<"W">> ELSE <<"U", "G">>

_COLOUR_ORDER == <<"W", "U", "B", "R", "G">>

Range(s) == {s[k] : k \in 1..Len(s)}

\* ------------------------------------------------------------------ rows
Inventory(u, c, q, f, cond, d, sb, loc) ==
  [user |-> u, card |-> c, qty |-> q, foil |-> f, cond |-> cond, deck |-> d,
   sb |-> sb, cmd |-> FALSE, loc |-> loc, proxy |-> FALSE, price |-> None, notes |-> None]

Add(I, n, r) == [j \in DOMAIN I \cup {n} |-> IF j = n THEN r ELSE I[j]]
KeepRow(I, i) == I

Delete(I, i) == [j \in DOMAIN I \ {i} |-> I[j]]

\* Inventory.query.filter_by(user_id, card_scryfall_id, is_foil, current_deck_id)
\* the look-up without its user_id filter
MatchesAnyOwner(I, u, c, f, d) ==
  {j \in DOMAIN I : I[j].card = c /\ I[j].foil = f /\ I[j].deck = d}

\* Inventory.query.filter_by(user_id, card_scryfall_id, is_foil, current_deck_id)
Matches(I, u, c, f, d) ==
  {j \in DOMAIN I : I[j].user = u /\ I[j].card = c /\ I[j].foil = f /\ I[j].deck = d}

NeverFound(M) == {None}

\* ... .first(): no ORDER BY, so any matching row, or None
First(M) == IF M = {} THEN {None} ELSE M

\* _compute_color_identity(deck), over deck.cards as a sequence of rows
\* [card |-> [exists, color_identity], qty]: card.exists is "inv.card" being
\* there, and a NULL color_identity is the empty string (both are falsy).
ReplaceColors(colors, row) ==
  IF row.card.exists /\ row.card.color_identity # <<>>
  THEN Range(row.card.color_identity)
  ELSE colors

\* the loop body: colors.update(inv.card.color_identity)
UpdateColors(colors, row) ==
  IF row.card.exists /\ row.card.color_identity # <<>>
  THEN colors \cup Range(row.card.color_identity)
  ELSE colors

\* colors after the first k rows of the loop
RECURSIVE ColorsAfter(_, _)
ColorsAfter(cards, k) ==
  IF k = 0 THEN {} ELSE UpdateColors(ColorsAfter(cards, k - 1), cards[k])

\* "".join(c for c in _COLOUR_ORDER if c in colors)
JoinColors(cards) ==
  SelectSeq(_COLOUR_ORDER, LAMBDA c : c \in ColorsAfter(cards, Len(cards)))

\* the rows of a deck as the query returns them (here: by id)
RECURSIVE InIdOrder(_)
InIdOrder(S) ==
  IF S = {} THEN << >>
  ELSE LET m == CHOOSE x \in S : \A y \in S : x <= y IN <<m>> \o InIdOrder(S \ {m})

_compute_color_identity(I, d) ==
  \* deck.cards (lazy="dynamic": queried when read, after autoflush)
  LET ids == InIdOrder({j \in DOMAIN I : I[j].deck = d}) IN
  JoinColors([k \in 1..Len(ids) |->
                [card |-> [exists |-> TRUE, color_identity |-> CardColorIdentity(I[ids[k]].card)],
                 qty |-> I[ids[k]].qty]])

Recompute(D, I, d) == [D EXCEPT ![d].ci = _compute_color_identity(I, d)]

\* Deck.can_edit_by / _can_access_deck
can_edit(D, d, u) == D[d].owner = u \/ u \in D[d].shared

\* the outcome of a handler: the tables after it and its HTTP outcome
Res(I, D, n, out) ==
  [inv |-> I, decks |-> D, next |-> n, out |-> out, successes |-> <<>>, failures |-> <<>>,
   calls |-> <<>>, recorded |-> <<>>]
Rejected(S, code) == {Res(S.inv, S.decks, S.next, code)}

\* -------------------------------------------------- decks.py: card movement
\* POST /decks/<d>/add-card {inv_id: i, qty: q} by user u
add_card(S, u, d, i, q) ==
  LET I == S.inv  D == S.decks IN
  IF ~D[d].exists THEN Rejected(S, "404")
  ELSE IF ~can_edit(D, d, u) THEN Rejected(S, "403")
  ELSE IF q < 1 THEN Rejected(S, "400")
  ELSE IF ~(i \in DOMAIN I /\ I[i].user = u /\ I[i].deck = Box) THEN Rejected(S, "404")
  ELSE IF q > I[i].qty THEN Rejected(S, "400")
  ELSE
    { LET I2 == IF q = I[i].qty
                THEN IF e # None
                     THEN Delete([I EXCEPT ![e].qty = @ + q], i)
                     ELSE [I EXCEPT ![i].deck = d]
                ELSE LET I1 == [I EXCEPT ![i].qty = @ - q] IN
                     IF e # None
                     THEN [I1 EXCEPT ![e].qty = @ + q]
                     ELSE Add(I1, S.next,
                              Inventory(u, I[i].card, q, I[i].foil, I[i].cond, d, FALSE, None))
          n2 == IF q # I[i].qty /\ e = None THEN S.next + 1 ELSE S.next
      IN  Res(I2, Recompute(D, I2, d), n2, "ok")
      : e \in First(Matches(I, u, I[i].card, I[i].foil, d)) }

\* POST /decks/<d>/remove-card/<i> {qty: q} by user u
remove_card(S, u, d, i, q) ==
  LET I == S.inv  D == S.decks IN
  IF ~D[d].exists THEN Rejected(S, "404")
  ELSE IF ~can_edit(D, d, u) THEN Rejected(S, "403")
  ELSE IF ~(i \in DOMAIN I /\ I[i].user = u /\ I[i].deck = d) THEN Rejected(S, "404")
  ELSE
    LET q1  == IF q = Absent \/ q < 1 THEN I[i].qty ELSE q   \* default, or ValueError
        qty == IF q1 < I[i].qty THEN q1 ELSE I[i].qty      \* min(qty, deck_inv.quantity)
    IN
    { LET I2 == IF qty >= I[i].qty
                THEN IF b # None
                     THEN Delete([I EXCEPT ![b].qty = @ + I[i].qty], i)
                     ELSE [I EXCEPT ![i].deck = Box]
                ELSE LET I1 == [I EXCEPT ![i].qty = @ - qty] IN
                     IF b # None
                     THEN [I1 EXCEPT ![b].qty = @ + qty]
                     ELSE Add(I1, S.next,
                              Inventory(u, I[i].card, qty, I[i].foil, I[i].cond, Box, FALSE, None))
          n2 == IF qty < I[i].qty /\ b = None THEN S.next + 1 ELSE S.next
      IN  Res(I2, Recompute(D, I2, d), n2, "ok")
      : b \in First(Matches(I, u, I[i].card, I[i].foil, Box)) }

\* POST /decks/move-card {inv_id: i, target_deck_id: t, qty: q} by user u
\* (t = 0: to the Box)
move_card(S, u, i, t, q) ==
  LET I == S.inv  D == S.decks IN
  IF ~(i \in DOMAIN I /\ I[i].user = u) THEN Rejected(S, "404")
  ELSE IF t # Box /\ ~D[t].exists THEN Rejected(S, "404")
  ELSE IF t # Box /\ ~can_edit(D, t, u) THEN Rejected(S, "403")
  ELSE
    LET q0  == IF q = Absent THEN I[i].qty ELSE q               \* data.get("qty", src_inv.quantity)
        qm  == IF q0 < I[i].qty THEN q0 ELSE I[i].qty
        qty == IF qm < 1 THEN 1 ELSE qm                     \* max(1, min(qty, src_inv.quantity))
    IN
    { LET I2 == IF qty >= I[i].qty
                THEN IF e # None
                     THEN Delete([I EXCEPT ![e].qty = @ + I[i].qty], i)
                     ELSE [I EXCEPT ![i].deck = t]
                ELSE LET I1 == [I EXCEPT ![i].qty = @ - qty] IN
                     IF e # None
                     THEN [I1 EXCEPT ![e].qty = @ + qty]
                     ELSE Add(I1, S.next,
                              Inventory(u, I[i].card, qty, I[i].foil, I[i].cond, t, FALSE, None))
          n2 == IF qty < I[i].qty /\ e = None THEN S.next + 1 ELSE S.next
          \* src_inv.current_deck_id as the handler reads it after the mutation
          sd == IF qty >= I[i].qty /\ e = None THEN t ELSE I[i].deck
          D1 == IF sd # Box /\ D[sd].exists THEN Recompute(D, I2, sd) ELSE D
          D2 == IF t # Box /\ D1[t].exists THEN Recompute(D1, I2, t) ELSE D1
      IN  Res(I2, D2, n2, "ok")
      : e \in First(Matches(I, u, I[i].card, I[i].foil, t)) }

delete_deck_cascade(S, u, d) ==
  LET I == S.inv  D == S.decks IN
  IF ~(D[d].exists /\ D[d].owner = u) THEN Rejected(S, "404")
  ELSE
    { Res([j \in {k \in DOMAIN I : I[k].deck # d} |-> I[j]],
          [D EXCEPT ![d].exists = FALSE], S.next, "ok") }


\* POST /decks/<d>/delete by user u
delete_deck(S, u, d) ==
  LET I == S.inv  D == S.decks IN
  IF ~(D[d].exists /\ D[d].owner = u) THEN Rejected(S, "404")
  ELSE
    { Res([j \in DOMAIN I |-> IF I[j].deck = d THEN [I[j] EXCEPT !.deck = Box] ELSE I[j]],
          [D EXCEPT ![d].exists = FALSE], S.next, "ok") }

\* ------------------------------------------------------- friends.py: transfer
shares_group_with(u, v) == u # v /\ social.group

can_view_box(viewer, target) ==
  \/ viewer = target
  \/ viewer \in social.admins
  \/ shares_group_with(viewer, target)

can_transfer_card(actor, row) ==
  IF row.deck # Box THEN FALSE
  ELSE IF actor = row.user THEN FALSE
  ELSE can_view_box(actor, row.user)

\* POST /friends/transfer {inv_id: i, deck_id: d, qty: q} by user u (d = 0: my Box)
transfer(S, u, i, d, q) ==
  LET I == S.inv  D == S.decks IN
  IF q < 1 THEN Rejected(S, "400")
  ELSE IF ~(i \in DOMAIN I /\ I[i].deck = Box) THEN Rejected(S, "404")
  ELSE IF ~can_transfer_card(u, I[i]) THEN Rejected(S, "403")
  ELSE IF d # Box /\ ~(D[d].exists /\ D[d].owner = u) THEN Rejected(S, "404")
  ELSE
    LET qty == IF q < I[i].qty THEN q ELSE I[i].qty IN      \* min(qty, src_inv.quantity)
    { LET I1 == IF qty >= I[i].qty THEN Delete(I, i) ELSE [I EXCEPT ![i].qty = @ - qty]
          I2 == IF e # None
                THEN [I1 EXCEPT ![e].qty = @ + qty]
                ELSE Add(I1, S.next,
                         Inventory(u, I[i].card, qty, I[i].foil, I[i].cond, d, FALSE, None))
          n2 == IF e = None THEN S.next + 1 ELSE S.next
          D2 == IF d # Box THEN Recompute(D, I2, d) ELSE D
      IN  Res(I2, D2, n2, "ok")
      : e \in First(Matches(I, u, I[i].card, I[i].foil, d)) }

\* ------------------------------------------------- collection.py / cards.py
Conditions == {"NM", "EX", "GD", "LP", "PL", "PO"}
MaxEditQty == 99

Bool(x) == x = 1             \* bool(...) of a JSON flag sent as 0 / 1

\* POST /box/<i>/edit by user u.  data: [quantity, condition, purchase (-1: negative
\* or not a number, 0: absent), sid (new printing or None), load_ok (Scryfall
\* answers), is_foil / is_proxy / is_sideboard / is_commander (1, 0 or
\* Absent), loc (Absent, None or a location), notes]
edit_card(S, u, i, data) ==
  LET I == S.inv  D == S.decks IN
  IF ~(i \in DOMAIN I /\ I[i].user = u) THEN Rejected(S, "404")
  ELSE IF data.quantity < 1 \/ data.quantity > MaxEditQty THEN Rejected(S, "400")
  ELSE IF data.condition \notin Conditions THEN Rejected(S, "400")
  ELSE IF data.purchase < 0 THEN Rejected(S, "400")
  ELSE
    LET switch == data.sid # None /\ data.sid # I[i].card
        is_foil_new == IF data.is_foil = Absent THEN I[i].foil ELSE Bool(data.is_foil)
        dups == IF switch
                THEN First({j \in Matches(I, u, data.sid, is_foil_new, I[i].deck) : j # i})
                ELSE {None}
        \* the field updates at the end of the handler, on a row r
        Plain(r) ==
          LET r1 == [r EXCEPT !.qty = data.quantity,
                              !.foil = IF data.is_foil = Absent THEN FALSE ELSE Bool(data.is_foil),
                              !.proxy = IF data.is_proxy = Absent THEN FALSE ELSE Bool(data.is_proxy),
                              !.cond = data.condition,
                              !.price = data.purchase,
                              !.notes = data.notes]
              r2 == IF data.loc = Absent THEN r1 ELSE [r1 EXCEPT !.loc = data.loc]
          IN  IF r.deck = Box THEN r2
              ELSE [r2 EXCEPT !.sb  = IF data.is_sideboard = Absent THEN r.sb ELSE Bool(data.is_sideboard),
                              !.cmd = IF data.is_commander = Absent THEN r.cmd ELSE Bool(data.is_commander)]
    IN
    IF switch /\ ~data.load_ok THEN Rejected(S, "400")
    ELSE
    { IF switch /\ I[i].qty = 1 /\ dup # None
      THEN Res(Delete([I EXCEPT ![dup].qty = @ + 1], i), D, S.next, "merged")
      ELSE IF switch /\ I[i].qty = 1
      THEN Res([I EXCEPT ![i] = Plain([I[i] EXCEPT !.card = data.sid])], D, S.next, "ok")
      ELSE IF switch
      THEN LET I1 == [I EXCEPT ![i].qty = @ - 1]
               I2 == IF dup # None
                     THEN [I1 EXCEPT ![dup].qty = @ + 1]
                     ELSE Add(I1, S.next,
                              Inventory(u, data.sid, 1, is_foil_new, I[i].cond, I[i].deck, FALSE, None))
               I3 == [I2 EXCEPT ![i].cond = data.condition, ![i].price = data.purchase,
                                ![i].notes = data.notes]
           IN  Res(I3, D, IF dup = None THEN S.next + 1 ELSE S.next, "split")
      ELSE Res([I EXCEPT ![i] = Plain(I[i])], D, S.next, "ok")
      : dup \in dups }

\* POST /box/<i>/delete by user u
delete_card(S, u, i) ==
  LET I == S.inv IN
  IF ~(i \in DOMAIN I /\ I[i].user = u) THEN Rejected(S, "404")
  ELSE IF I[i].deck # Box THEN Rejected(S, "403")
  ELSE {Res(Delete(I, i), S.decks, S.next, "ok")}

\* POST /cards/add-to-box {scryfall_id: c, qty: q, is_foil: f} by user u
add_to_box(S, u, c, q, f, load_ok) ==
  LET I == S.inv
      q0  == IF q = Absent THEN 1 ELSE q
      qm  == IF q0 < MaxEditQty THEN q0 ELSE MaxEditQty
      qty == IF qm < 1 THEN 1 ELSE qm                       \* max(1, min(int(qty), 99))
  IN
  IF ~load_ok THEN Rejected(S, "400")
  ELSE
    { IF e # None
      THEN Res([I EXCEPT ![e].qty = @ + qty], S.decks, S.next, "ok")
      ELSE Res(Add(I, S.next, Inventory(u, c, qty, f, "NM", Box, FALSE, None)),
               S.decks, S.next + 1, "ok")
      : e \in First(Matches(I, u, c, f, Box)) }

\* ------------------------------------------------ card_service.py: importers
\* A line of pasted text, as far as the importers look at it:
\*   kind  "blank" | "comment" | "section" | "card" | "junk"
\*   sec   the section keyword of a "section" line
\*   qty   the leading quantity of a "card" line
\*   foil  a foil marker was found
\*   id    the line's own text (raw), standing for its card name too
\* and what Scryfall answers for its name: exact / fuzzy \in Cards, or
NotFound  == 0     \* ScryfallError(not_found=True)
Transient == -1    \* any other ScryfallError
Malformed == -2    \* a 200 answer the client cannot use: an exception that is no ScryfallError
MaxParseQty == 99

\* parse_line: a ParsedLine, or NoLine for None
NoLine == [ok |-> FALSE]

parse_line(line) ==
  IF line.kind \in {"blank", "comment", "section", "headed"} THEN NoLine
  ELSE IF line.kind # "card" THEN NoLine
  ELSE IF line.qty < 1 \/ line.qty > MaxParseQty THEN NoLine
  ELSE [ok |-> TRUE, quantity |-> line.qty, name |-> line.id, is_foil |-> line.foil,
        is_sideboard |-> FALSE, raw |-> line.id, exact |-> line.exact, fuzzy |-> line.fuzzy]

\* _SKIP_RE matches a line that starts with a comment marker, with SB: or with
\* a section keyword, whatever follows the keyword (kind "headed": a section
\* keyword followed by more text, as in "Commander's Sphere")
Skipped(line) == line.kind \in {"comment", "section", "headed"}

RECURSIVE parse_decklist_from(_, _, _)
parse_decklist_from(text, k, acc) ==
  IF k > Len(text) THEN acc
  ELSE LET line == text[k] IN
       IF line.kind = "blank" \/ Skipped(line) THEN parse_decklist_from(text, k + 1, acc)
       ELSE IF ~parse_line(line).ok
       THEN parse_decklist_from(text, k + 1,
              [acc EXCEPT !.failures = Append(@, [line |-> line.id, reason |-> "parse"])])
       ELSE parse_decklist_from(text, k + 1,
              [acc EXCEPT !.parsed = Append(@, parse_line(line))])

parse_decklist(text) == parse_decklist_from(text, 1, [parsed |-> <<>>, failures |-> <<>>])

StickySideboard(in_sideboard, line) == in_sideboard \/ line.sec = "sideboard"

\* in_sideboard = sec.group(1).lower() == "sideboard"
SectionState(in_sideboard, line) == line.sec = "sideboard"

RECURSIVE parse_moxfield_from(_, _, _, _)
parse_moxfield_from(text, k, in_sideboard, acc) ==
  IF k > Len(text) THEN acc
  ELSE LET line == text[k] IN
       IF line.kind = "blank" THEN parse_moxfield_from(text, k + 1, in_sideboard, acc)
       ELSE IF line.kind = "section"
       THEN parse_moxfield_from(text, k + 1, SectionState(in_sideboard, line), acc)
       ELSE IF Skipped(line) THEN parse_moxfield_from(text, k + 1, in_sideboard, acc)
       ELSE IF ~parse_line(line).ok
       THEN parse_moxfield_from(text, k + 1, in_sideboard,
              [acc EXCEPT !.failures = Append(@, [line |-> line.id, reason |-> "parse"])])
       ELSE parse_moxfield_from(text, k + 1, in_sideboard,
              [acc EXCEPT !.parsed =
                 Append(@, [parse_line(line) EXCEPT !.is_sideboard = in_sideboard])])

parse_moxfield_text(text) ==
  parse_moxfield_from(text, 1, FALSE, [parsed |-> <<>>, failures |-> <<>>])

\* The two get_or_create_card calls of an importer for one ParsedLine:
\* [card, calls, reason]; card = None when the line fails, reason "exception"
\* when the call raises something the importer does not catch.
\* get_or_create_card(name=pl.name, set_code=pl.set_code,
\*                    collector_number=pl.collector_number, fuzzy=False)
ExactCall(pl) ==
  [line |-> pl.raw, args |-> "name, set_code, collector_number", fuzzy |-> FALSE,
   answer |-> pl.exact]

\* get_or_create_card(name=pl.name, fuzzy=True)
FuzzyCall(pl) ==
  [line |-> pl.raw, args |-> "name", fuzzy |-> TRUE, answer |-> pl.fuzzy]

RetryAlways(pl) ==
  IF pl.exact \in Cards
  THEN [card |-> pl.exact, calls |-> <<ExactCall(pl)>>, reason |-> "ok"]
  ELSE IF pl.exact = Malformed
  THEN [card |-> None, calls |-> <<ExactCall(pl)>>, reason |-> "exception"]
  ELSE IF pl.fuzzy \in Cards
  THEN [card |-> pl.fuzzy, calls |-> <<ExactCall(pl), FuzzyCall(pl)>>, reason |-> "ok"]
  ELSE IF pl.fuzzy = Malformed
  THEN [card |-> None, calls |-> <<ExactCall(pl), FuzzyCall(pl)>>, reason |-> "exception"]
  ELSE [card |-> None, calls |-> <<ExactCall(pl), FuzzyCall(pl)>>, reason |-> "Card not found"]

Resolve(pl) ==
  IF pl.exact \in Cards
  THEN [card |-> pl.exact, calls |-> <<ExactCall(pl)>>, reason |-> "ok"]
  ELSE IF pl.exact = NotFound
  THEN IF pl.fuzzy \in Cards
       THEN [card |-> pl.fuzzy, calls |-> <<ExactCall(pl), FuzzyCall(pl)>>, reason |-> "ok"]
       ELSE IF pl.fuzzy = Malformed
       THEN [card |-> None, calls |-> <<ExactCall(pl), FuzzyCall(pl)>>, reason |-> "exception"]
       ELSE [card |-> None, calls |-> <<ExactCall(pl), FuzzyCall(pl)>>,
             reason |-> "Card not found"]
  ELSE IF pl.exact = Malformed
  THEN [card |-> None, calls |-> <<ExactCall(pl)>>, reason |-> "exception"]
  ELSE [card |-> None, calls |-> <<ExactCall(pl)>>, reason |-> "Scryfall error"]

\* the importer's table after the lookups of one line
Called(T, r) == [T EXCEPT !.calls = @ \o r.calls]

\* The Box branch of bulk_import_decklist / stream_box_import for one resolved
\* line, on T = [inv, next, successes, failures]; e is what .first() returned.
LocationOverwritten(old, loc) == IF loc # None THEN loc ELSE old

\* "Only write location onto existing row if it had none"
ExistingLocation(old, loc) == IF loc # None /\ old = None THEN loc ELSE old

BoxRow(T, u, pl, c, physical_location, e) ==
  LET loc == physical_location      \* .strip() or None
      I2 == IF e # None
            THEN [T.inv EXCEPT ![e].qty = @ + pl.quantity,
                               ![e].loc = ExistingLocation(@, loc)]
            ELSE Add(T.inv, T.next,
                     Inventory(u, c, pl.quantity, pl.is_foil, "NM", Box, FALSE, loc))
  IN  [T EXCEPT !.inv = I2,
                !.next = IF e = None THEN @ + 1 ELSE @,
                !.successes = Append(@, [card |-> c, quantity |-> pl.quantity,
                                         is_foil |-> pl.is_foil, added |-> e = None])]

\* Inventory.query.filter_by(..., is_sideboard=is_sideboard)
MatchesSb(I, u, c, f, d, sb) == {j \in Matches(I, u, c, f, d) : I[j].sb = sb}

\* _upsert_deck_row; e is what .first() returned
_upsert_deck_row(I, n, u, d, c, qty, is_foil, is_sideboard, e) ==
  IF e # None
  THEN [I EXCEPT ![e].qty = @ + qty]
  ELSE Add(I, n, Inventory(u, c, qty, is_foil, "NM", d, is_sideboard, None))

FailFirst(T, pl, reason) ==
  [T EXCEPT !.failures = <<[line |-> pl.raw, reason |-> reason]>> \o @]

\* result.failures.append({"line": pl.raw, "reason": ...})
Fail(T, pl, reason) ==
  [T EXCEPT !.failures = Append(@, [line |-> pl.raw, reason |-> reason])]

Raised(T) == [T EXCEPT !.crashed = TRUE]

\* one pass of the loop body of bulk_import_decklist / stream_box_import, for
\* the ParsedLine pl: every table it can leave
BoxStep(T0, u, pl, loc) ==
  LET r == Resolve(pl)
      T == Called(T0, r)
  IN
  IF r.reason = "exception" THEN {Raised(T)}
  ELSE IF r.card = None THEN {Fail(T, pl, r.reason)}
  ELSE { BoxRow(T, u, pl, r.card, loc, e)
         : e \in First(Matches(T.inv, u, r.card, pl.is_foil, Box)) }

\* the loop over parsed_lines, from line k on: every table it can end with
RECURSIVE BoxLoop(_, _, _, _, _)
BoxLoop(T, u, parsed, loc, k) ==
  IF k > Len(parsed) \/ T.crashed THEN {T}
  ELSE UNION { BoxLoop(T2, u, parsed, loc, k + 1) : T2 \in BoxStep(T, u, parsed[k], loc) }

\* one pass of the loop body of bulk_import_to_deck / bulk_import_moxfield_text /
\* stream_deck_import
DeckStep(T0, u, d, pl, moxfield) ==
  LET r  == Resolve(pl)
      T  == Called(T0, r)
      sb == IF moxfield THEN pl.is_sideboard ELSE FALSE
  IN
  IF r.reason = "exception" THEN {Raised(T)}
  ELSE IF r.card = None THEN {Fail(T, pl, r.reason)}
  ELSE { [T EXCEPT
            !.inv = _upsert_deck_row(T.inv, T.next, u, d, r.card,
                                     pl.quantity, pl.is_foil, sb, e),
            !.next = IF e = None THEN @ + 1 ELSE @,
            !.successes = Append(@, [card |-> r.card, quantity |-> pl.quantity,
                                     is_foil |-> pl.is_foil, added |-> e = None])]
         : e \in First(MatchesSb(T.inv, u, r.card, pl.is_foil, d, sb)) }

RECURSIVE DeckLoop(_, _, _, _, _, _)
DeckLoop(T, u, d, parsed, moxfield, k) ==
  IF k > Len(parsed) \/ T.crashed THEN {T}
  ELSE UNION { DeckLoop(T2, u, d, parsed, moxfield, k + 1)
               : T2 \in DeckStep(T, u, d, parsed[k], moxfield) }

Start(S, failures) ==
  [inv |-> S.inv, next |-> S.next, successes |-> <<>>, failures |-> failures,
   crashed |-> FALSE, calls |-> <<>>]

\* the request's outcome: an uncaught exception ends it with nothing committed
ImportRes(S, T, D) ==
  IF T.crashed THEN [Res(S.inv, S.decks, S.next, "500") EXCEPT !.calls = T.calls,
                                                               !.recorded = T.failures]
  ELSE [inv |-> T.inv, decks |-> D, next |-> T.next, out |-> "ok",
        successes |-> T.successes, failures |-> T.failures, calls |-> T.calls,
        recorded |-> T.failures]

\* POST /box/import: bulk_import_decklist(text, user_id, physical_location)
bulk_import_decklist(S, u, text, physical_location) ==
  LET p == parse_decklist(text) IN
  { ImportRes(S, T, S.decks) : T \in BoxLoop(Start(S, p.failures), u, p.parsed, physical_location, 1) }

\* POST /box/import-stream run to its end: stream_box_import(text, user_id, physical_location)
stream_box_import(S, u, text, physical_location) ==
  LET p == parse_decklist(text) IN
  { ImportRes(S, T, S.decks) : T \in BoxLoop(Start(S, p.failures), u, p.parsed, physical_location, 1) }

\* POST /decks/<d>/import-stream run to its end: stream_deck_import, then the
\* recompute and commit of import_deck_stream
import_deck_stream(S, u, d, text, moxfield) ==
  LET p == IF moxfield THEN parse_moxfield_text(text) ELSE parse_decklist(text) IN
  IF ~S.decks[d].exists THEN Rejected(S, "404")
  ELSE IF ~can_edit(S.decks, d, u) THEN Rejected(S, "denied")
  ELSE IF \A k \in 1..Len(text) : text[k].kind = "blank" THEN Rejected(S, "empty")
  ELSE { ImportRes(S, T, IF T.crashed THEN S.decks ELSE Recompute(S.decks, T.inv, d))
         : T \in DeckLoop(Start(S, p.failures), u, d, p.parsed, moxfield, 1) }

\* import_moxfield_to_deck(mox_deck, user_id, deck_id): mox_deck.cards is a
\* sequence of [name, quantity, is_foil, is_sideboard, card]; card is what
\* get_or_create_card returns for it (None: it raises)
RECURSIVE MoxLoop(_, _, _, _, _)
MoxLoop(T, u, d, cards, k) ==
  IF k > Len(cards) THEN {T}
  ELSE LET mc == cards[k] IN
       IF mc.name = None THEN MoxLoop(T, u, d, cards, k + 1)
       ELSE IF mc.card = None
       THEN MoxLoop([T EXCEPT !.failures = Append(@, [line |-> mc.name, reason |-> "exc"])],
                    u, d, cards, k + 1)
       ELSE UNION { MoxLoop([T EXCEPT
                        !.inv = _upsert_deck_row(T.inv, T.next, u, d, mc.card,
                                                 mc.quantity, mc.is_foil, mc.is_sideboard, e),
                        !.next = IF e = None THEN @ + 1 ELSE @,
                        !.successes = Append(@, [card |-> mc.card, quantity |-> mc.quantity,
                                                 is_foil |-> mc.is_foil, added |-> e = None])],
                      u, d, cards, k + 1)
                    : e \in First(MatchesSb(T.inv, u, mc.card, mc.is_foil, d, mc.is_sideboard)) }

import_moxfield_to_deck(S, u, d, cards) ==
  { ImportRes(S, T, S.decks) : T \in MoxLoop(Start(S, <<>>), u, d, cards, 1) }

\* ------------------------------------------------------------ the ledger
Cur == [inv |-> inv, decks |-> decks, next |-> nextId]

\* One request handled to its end: R is the set of outcomes the handler can have.
\* op keeps the request's arguments, except of a request refused with 404 or 403.
\* The guards keep the model finite: no more than MaxId rows are ever created and
\* no row grows beyond MaxQty.
Do(name, u, src, q, dst, flag, R) ==
  \E r \in R :
    /\ steps' = steps + 1
    /\ r.next <= MaxId + 1
    /\ \A j \in DOMAIN r.inv : r.inv[j].qty <= MaxQty
    /\ inv' = r.inv
    /\ decks' = r.decks
    /\ nextId' = r.next
    /\ op' = IF r.out \in {"404", "403"}
             THEN [name |-> name, actor |-> u, src |-> 0, qty |-> 0, dst |-> 0,
                   flag |-> Absent, out |-> r.out]
             ELSE [name |-> name, actor |-> u, src |-> src, qty |-> q, dst |-> dst,
                   flag |-> flag, out |-> r.out]
    /\ result' = [successes |-> r.successes, failures |-> r.failures]
    /\ pinv' = inv
    /\ pdecks' = decks
    /\ UNCHANGED <<social, req, stream, events>>

NoOp == [name |-> "init", actor |-> 0, src |-> 0, qty |-> 0, dst |-> 0, flag |-> Absent, out |-> "ok"]
NoResult == [successes |-> <<>>, failures |-> <<>>]
NoStream == [kind |-> "none", pc |-> "closed", passed |-> FALSE, has_import |-> FALSE,
             user |-> 0, deck |-> 0, moxfield |-> FALSE, loc |-> None,
             text |-> <<>>, parsed |-> <<>>, k |-> 0, next0 |-> 0]

\* Two users in one friend group; deck 1 is user 1's and shared with user 2,
\* deck 2 is user 2's; both decks were created empty.  Nobody owns a card yet.
InitDecks ==
  [d \in DeckIds |-> [exists |-> TRUE, owner |-> d, ci |-> <<>>,
                      shared |-> IF d = 1 THEN {2} ELSE {}]]

Init ==
  /\ inv = << >>
  /\ decks = InitDecks
  /\ nextId = 1
  /\ social = [group |-> TRUE, admins |-> {}]
  /\ op = NoOp
  /\ result = NoResult
  /\ pinv = << >>
  /\ pdecks = InitDecks
  /\ steps = 0
  /\ req = << >>
  /\ stream = NoStream
  /\ events = << >>

\* the requests of the ledger specification
Qtys == {Absent} \cup (1..MaxQty)

Card(c, q) == [kind |-> "card", sec |-> "", qty |-> q, foil |-> FALSE, id |-> c,
               exact |-> c, fuzzy |-> NotFound]
Section(s) == [kind |-> "section", sec |-> s, qty |-> 0, foil |-> FALSE, id |-> 0,
               exact |-> NotFound, fuzzy |-> NotFound]

LedgerTexts ==
  {<<Card(c, 1)>> : c \in Cards} \cup {<<Section("sideboard"), Card(c, 1)>> : c \in Cards}

EditData(q, sid, foil, sb) ==
  [quantity |-> q, condition |-> "NM", purchase |-> 0, sid |-> sid, load_ok |-> TRUE,
   is_foil |-> foil, is_proxy |-> Absent, is_sideboard |-> sb, is_commander |-> Absent,
   loc |-> Absent, notes |-> None]

AddCard ==
  /\ steps < MaxSteps
  /\ \E u \in Users, d \in DeckIds, i \in DOMAIN inv, q \in 1..MaxQty :
    Do("add_card", u, i, q, d, Absent, add_card(Cur, u, d, i, q))

RemoveCard ==
  /\ steps < MaxSteps
  /\ \E u \in Users, d \in DeckIds, i \in DOMAIN inv, q \in Qtys :
    Do("remove_card", u, i, q, d, Absent, remove_card(Cur, u, d, i, q))

MoveCard ==
  /\ steps < MaxSteps
  /\ \E u \in Users, i \in DOMAIN inv, t \in {Box} \cup DeckIds, q \in Qtys :
    Do("move_card", u, i, q, t, Absent, move_card(Cur, u, i, t, q))

Transfer ==
  /\ steps < MaxSteps
  /\ \E u \in Users, i \in DOMAIN inv, d \in {Box} \cup DeckIds, q \in 1..MaxQty :
    Do("transfer", u, i, q, d, Absent, transfer(Cur, u, i, d, q))

DeleteDeck ==
  /\ steps < MaxSteps
  /\ \E u \in Users, d \in DeckIds :
    Do("delete_deck", u, 0, 0, d, Absent, delete_deck(Cur, u, d))

EditCard ==
  /\ steps < MaxSteps
  /\ \E u \in Users, i \in DOMAIN inv,
        data \in {EditData(q, sid, Absent, Absent) : q \in 1..2, sid \in {None} \cup Cards}
                   \cup {EditData(1, None, 1, Absent), EditData(1, None, Absent, 1)} :
    Do("edit_card", u, i, data.quantity, data.sid, data.is_foil, edit_card(Cur, u, i, data))

DeleteCard ==
  /\ steps < MaxSteps
  /\ \E u \in Users, i \in DOMAIN inv :
    Do("delete_card", u, i, 0, 0, Absent, delete_card(Cur, u, i))

AddToBox ==
  /\ steps < MaxSteps
  /\ \E u \in Users, c \in Cards, q \in 1..2 :
    Do("add_to_box", u, 0, q, c, Absent, add_to_box(Cur, u, c, q, FALSE, TRUE))

BoxImport ==
  /\ steps < MaxSteps
  /\ \E u \in Users, text \in LedgerTexts, loc \in {None} :
    Do("box_import", u, 0, 0, Box, loc, bulk_import_decklist(Cur, u, text, loc))

DeckImport ==
  /\ steps < MaxSteps
  /\ \E u \in Users, d \in DeckIds, text \in LedgerTexts :
    Do("deck_import", u, 0, 0, d, Absent, import_deck_stream(Cur, u, d, text, TRUE))

MoxfieldImport ==
  /\ steps < MaxSteps
  /\ \E u \in Users, d \in DeckIds, c \in Cards, q \in 0..1, sb \in BOOLEAN :
    /\ decks[d].exists /\ can_edit(decks, d, u)
    /\ Do("moxfield_import", u, 0, q, d, Absent, import_moxfield_to_deck(Cur, u, d,
           <<[name |-> c, quantity |-> q, is_foil |-> FALSE, is_sideboard |-> sb, card |-> c]>>))

Next ==
  \/ AddCard \/ RemoveCard \/ MoveCard \/ Transfer \/ DeleteDeck
  \/ EditCard \/ DeleteCard \/ AddToBox \/ BoxImport \/ DeckImport \/ MoxfieldImport

Spec == Init /\ [][Next]_vars


\* --------------------------------------------------- taking from a friend
\* The ledger requests that fill Boxes and decks, and transfer, for every
\* membership the two users can have: in a common friend group or not, each an
\* admin (is_admin or the permission admin.full_access) or not.
InitSocial ==
  /\ inv = << >>
  /\ decks = InitDecks
  /\ nextId = 1
  /\ social \in [group : BOOLEAN, admins : SUBSET Users]
  /\ op = NoOp
  /\ result = NoResult
  /\ pinv = << >>
  /\ pdecks = InitDecks
  /\ steps = 0
  /\ req = << >>
  /\ stream = NoStream
  /\ events = << >>

NextSocial == AddToBox \/ AddCard \/ Transfer

SpecSocial == InitSocial /\ [][NextSocial]_vars

\* ------------------------------------------------------- the Box importers
\* Lines of pasted lists: two printings by their own names, a second name that
\* only the fuzzy search resolves (to printing 1), a foil line of printing 1, a
\* name Scryfall does not know, and a line that is no card line.
Alias   == [kind |-> "card", sec |-> "", qty |-> 1, foil |-> FALSE, id |-> 3,
            exact |-> NotFound, fuzzy |-> 1]
Foil    == [kind |-> "card", sec |-> "", qty |-> 1, foil |-> TRUE, id |-> 4,
            exact |-> 1, fuzzy |-> NotFound]
Unknown == [kind |-> "card", sec |-> "", qty |-> 1, foil |-> FALSE, id |-> 5,
            exact |-> NotFound, fuzzy |-> NotFound]
Junk    == [kind |-> "junk", sec |-> "", qty |-> 0, foil |-> FALSE, id |-> 6,
            exact |-> NotFound, fuzzy |-> NotFound]
\* a name for which Scryfall answers 200 with a body that is no JSON, a blank
\* line, and a name for which Scryfall answers 429 or 5xx
Broken == [kind |-> "card", sec |-> "", qty |-> 1, foil |-> FALSE, id |-> 7,
           exact |-> Malformed, fuzzy |-> NotFound]
Blank  == [kind |-> "blank", sec |-> "", qty |-> 0, foil |-> FALSE, id |-> 0,
           exact |-> NotFound, fuzzy |-> NotFound]
Flaky == [kind |-> "card", sec |-> "", qty |-> 1, foil |-> FALSE, id |-> 8,
          exact |-> Transient, fuzzy |-> 2]

ImportTexts ==
  UNION {[1..n -> {Card(c, 1) : c \in Cards} \cup {Alias, Foil, Unknown, Junk, Broken, Flaky}]
         : n \in 1..MaxLines}
Hints == {None, 1, 2}

InitImport == Init

DoImport(name, u, text, loc, R) ==
  \E r \in R :
    /\ inv' = r.inv
    /\ decks' = r.decks
    /\ nextId' = r.next
    /\ op' = [name |-> name, actor |-> u, src |-> 0, qty |-> 0, dst |-> Box,
              flag |-> loc, out |-> r.out]
    /\ result' = [successes |-> r.successes, failures |-> r.failures]
    /\ pinv' = inv
    /\ pdecks' = decks
    /\ steps' = steps + 1
    /\ req' = Append(req, [user |-> u, text |-> text, loc |-> loc, calls |-> r.calls,
                         recorded |-> r.recorded])
    /\ UNCHANGED <<social, stream, events>>

BulkImport ==
  /\ Len(req) < MaxImports
  /\ \E u \in Users, text \in ImportTexts, loc \in Hints :
       DoImport("box_import", u, text, loc, bulk_import_decklist(Cur, u, text, loc))

StreamImport ==
  /\ Len(req) < MaxImports
  /\ \E u \in Users, text \in ImportTexts, loc \in Hints :
       DoImport("box_import_stream", u, text, loc, stream_box_import(Cur, u, text, loc))

NextImport == BulkImport \/ StreamImport

SpecImport == InitImport /\ [][NextImport]_vars


\* ------------------------------------------------------ streaming imports
\* The three NDJSON endpoints, one generator step per action: POST
\* /box/import-stream (import_stream), /decks/new-stream (new_deck_stream) and
\* /decks/<d>/import-stream (import_deck_stream).

StreamTexts ==
  {<< >>} \cup UNION {[1..n -> {Card(1, 1), Card(1, 2), Unknown, Broken, Junk, Blank}]
                      : n \in 1..MaxLines}

\* not text.strip()
IsBlankText(text) == \A k \in 1..Len(text) : text[k].kind = "blank"

Event(type, current, total, ok, card) ==
  [type |-> type, current |-> current, total |-> total, ok |-> ok, card |-> card,
   successes |-> 0, failures |-> 0]

\* sum(s["quantity"] for s in ...), from the k-th success on
RECURSIVE SumQuantity(_, _)
SumQuantity(successes, k) ==
  IF k > Len(successes) THEN 0 ELSE successes[k].quantity + SumQuantity(successes, k + 1)

\* counting the imported lines instead of their cards
success_lines(successes, k) == Len(successes) - (k - 1)

\* ImportResult.success_count
success_count(successes, k) == SumQuantity(successes, k)

DoneEvent == [Event("done", 0, 0, TRUE, 0) EXCEPT !.successes = success_count(result.successes, 1),
                                                  !.failures = Len(result.failures)]
ErrorEvent == Event("error", 0, 0, FALSE, 0)

\* One deck, user 1's and shared with user 2; /decks/new-stream creates deck 2.
InitStream ==
  /\ inv = << >>
  /\ decks = [InitDecks EXCEPT ![2].exists = FALSE]
  /\ nextId = 1
  /\ social = [group |-> TRUE, admins |-> {}]
  /\ op = NoOp
  /\ result = NoResult
  /\ pinv = << >>
  /\ pdecks = [InitDecks EXCEPT ![2].exists = FALSE]
  /\ steps = 0
  /\ req = << >>
  /\ stream = NoStream
  /\ events = << >>

StreamOp(kind, u, d, out) ==
  [name |-> kind, actor |-> u, src |-> 0, qty |-> 0, dst |-> d, flag |-> Absent, out |-> out]

\* the request is answered without entering the generator: one error event, or
\* (a deck that does not exist) the 404 page
Refused(kind, u, d, out) ==
  /\ stream' = [NoStream EXCEPT !.kind = IF out = "404" THEN "none" ELSE kind,
                                !.user = u, !.deck = d]
  /\ events' = IF out = "404" THEN << >> ELSE <<ErrorEvent>>
  /\ op' = StreamOp(kind, u, d, out)
  /\ result' = NoResult
  /\ UNCHANGED <<inv, decks, nextId>>

StreamRequest ==
  /\ stream.pc = "closed"
  /\ steps < MaxStreams
  /\ steps' = steps + 1
  /\ pinv' = inv
  /\ pdecks' = decks
  /\ UNCHANGED <<social, req>>
  /\ \E kind \in {"box", "new_deck", "deck"}, u \in Users, valid \in BOOLEAN,
        import_type \in {"empty", "decklist", "moxfield"}, text \in StreamTexts, loc \in {None, 1} :
       LET moxfield == import_type = "moxfield"
           p == IF moxfield /\ kind # "box" THEN parse_moxfield_text(text) ELSE parse_decklist(text)
           S == [NoStream EXCEPT !.kind = kind, !.user = u, !.passed = TRUE, !.text = text,
                                 !.parsed = p.parsed, !.k = 1, !.next0 = nextId]
           started == <<Event("start", 0, Len(p.parsed), TRUE, 0)>>
       IN
       IF kind = "box"
       THEN IF ~valid \/ IsBlankText(text) THEN Refused(kind, u, Box, "invalid")
            ELSE /\ stream' = [S EXCEPT !.pc = "loop", !.has_import = TRUE, !.loc = loc]
                 /\ events' = started
                 /\ result' = [successes |-> << >>, failures |-> p.failures]
                 /\ op' = StreamOp(kind, u, Box, "ok")
                 /\ UNCHANGED <<inv, decks, nextId>>
       ELSE IF kind = "deck"
       THEN \E d \in DeckIds :
              IF ~valid \/ import_type = "empty" THEN Refused(kind, u, d, "invalid")
              ELSE IF ~decks[d].exists THEN Refused(kind, u, d, "404")
              ELSE IF ~can_edit(decks, d, u) THEN Refused(kind, u, d, "denied")
              ELSE IF IsBlankText(text) THEN Refused(kind, u, d, "empty")
              ELSE /\ stream' = [S EXCEPT !.pc = "loop", !.has_import = TRUE, !.deck = d,
                                          !.moxfield = moxfield]
                   /\ events' = started
                   /\ result' = [successes |-> << >>, failures |-> p.failures]
                   /\ op' = StreamOp(kind, u, d, "ok")
                   /\ UNCHANGED <<inv, decks, nextId>>
       ELSE IF ~valid THEN Refused(kind, u, Box, "invalid")
            ELSE \E d \in DeckIds :
                   /\ ~decks[d].exists
                   /\ \A d2 \in DeckIds : ~decks[d2].exists => d <= d2
                   /\ LET has_import == ~IsBlankText(text) /\ import_type \in {"decklist", "moxfield"} IN
                      stream' = [S EXCEPT !.pc = IF has_import THEN "start" ELSE "finish",
                                          !.has_import = has_import, !.deck = d,
                                          !.moxfield = moxfield,
                                          !.parsed = IF has_import THEN p.parsed ELSE << >>]
                   /\ decks' = [decks EXCEPT ![d] = [exists |-> TRUE, owner |-> u, ci |-> << >>,
                                                     shared |-> {}]]
                   /\ events' = <<Event("deck_created", 0, 0, TRUE, 0)>>
                   /\ result' = NoResult
                   /\ op' = StreamOp(kind, u, d, "ok")
                   /\ UNCHANGED <<inv, nextId>>

\* new_deck_stream enters stream_deck_import
StreamStart ==
  /\ stream.pc = "start"
  /\ events' = Append(events, Event("start", 0, Len(stream.parsed), TRUE, 0))
  /\ stream' = [stream EXCEPT !.pc = "loop"]
  /\ result' = [successes |-> << >>,
                failures |-> (IF stream.moxfield THEN parse_moxfield_text(stream.text)
                              ELSE parse_decklist(stream.text)).failures]
  /\ UNCHANGED <<inv, decks, nextId, social, op, pinv, pdecks, steps, req>>

\* "except Exception" of the endpoint's generator: the error event; what was
\* flushed but not committed is rolled back when the request ends
Aborted ==
  /\ events' = Append(events, ErrorEvent)
  /\ stream' = [stream EXCEPT !.pc = "closed"]
  /\ inv' = pinv
  /\ decks' = pdecks
  /\ nextId' = stream.next0
  /\ UNCHANGED result

\* one pass of the importer's loop, up to its yield
StreamLine ==
  /\ stream.pc = "loop"
  /\ stream.k <= Len(stream.parsed)
  /\ UNCHANGED <<social, op, pinv, pdecks, steps, req>>
  /\ LET pl == stream.parsed[stream.k]
         T  == [inv |-> inv, next |-> nextId, successes |-> result.successes,
                failures |-> result.failures, crashed |-> FALSE, calls |-> <<>>]
     IN
     \E T2 \in (IF stream.kind = "box" THEN BoxStep(T, stream.user, pl, stream.loc)
                ELSE DeckStep(T, stream.user, stream.deck, pl, stream.moxfield)) :
       IF T2.crashed THEN Aborted
       ELSE /\ inv' = T2.inv
            /\ nextId' = T2.next
            /\ result' = [successes |-> T2.successes, failures |-> T2.failures]
            /\ events' = Append(events, Event("progress", stream.k, Len(stream.parsed),
                                              Len(T2.successes) > Len(T.successes), pl.name))
            /\ stream' = [stream EXCEPT !.k = @ + 1]
            /\ UNCHANGED decks

\* after the loop: the importer's commit and, for the deck endpoints, the
\* recompute, the commit and the audit entry before the done event.  fault: the
\* database refuses the importer's commit, or the later audit commit, or nothing.
StreamFinish ==
  /\ \/ stream.pc = "loop" /\ stream.k > Len(stream.parsed)
     \/ stream.pc = "finish"
  /\ UNCHANGED <<social, op, steps, req>>
  /\ \E fault \in {"none", "commit", "audit"} :
       IF fault = "commit" THEN Aborted /\ UNCHANGED <<pinv, pdecks>>
       ELSE IF stream.kind = "box"
       THEN /\ fault = "none"
            /\ events' = Append(events, DoneEvent)
            /\ stream' = [stream EXCEPT !.pc = "after"]
            /\ pinv' = inv
            /\ pdecks' = decks
            /\ UNCHANGED <<inv, decks, nextId, result>>
       ELSE /\ decks' = Recompute(decks, inv, stream.deck)
            /\ pinv' = inv
            /\ pdecks' = decks'
            /\ events' = Append(events, IF fault = "audit" THEN ErrorEvent ELSE DoneEvent)
            /\ stream' = [stream EXCEPT !.pc = "closed"]
            /\ UNCHANGED <<inv, nextId, result>>

\* import_stream after stream_box_import has returned: the audit entry, the feed
\* post and their commit, still inside the generator's try block
StreamAfter ==
  /\ stream.pc = "after"
  /\ \E ok \in BOOLEAN :
       events' = IF ok THEN events ELSE Append(events, ErrorEvent)
  /\ stream' = [stream EXCEPT !.pc = "closed"]
  /\ UNCHANGED <<inv, decks, nextId, social, op, result, pinv, pdecks, steps, req>>

\* The client closes the connection while the generator is suspended at a yield:
\* GeneratorExit is raised there, which "except Exception" does not catch, so
\* the generator ends before its db.session.commit(); what the importer had
\* flushed is rolled back when the request context is torn down.
StreamCancel ==
  /\ stream.pc \in {"start", "loop"}
  /\ stream' = [stream EXCEPT !.pc = "closed"]
  /\ op' = [op EXCEPT !.out = "cancelled"]
  /\ inv' = pinv
  /\ decks' = pdecks
  /\ nextId' = stream.next0
  /\ UNCHANGED <<social, result, events, pinv, pdecks, steps, req>>

NextStream ==
  StreamRequest \/ StreamStart \/ StreamLine \/ StreamFinish \/ StreamAfter \/ StreamCancel

SpecStream == InitStream /\ [][NextStream]_vars

\* ------------------------------------------------------------ the parsers
\* parse_decklist and parse_moxfield_text applied to pasted texts of up to
\* MaxText lines: card lines with a quantity in and out of range, a line
\* without quantity, comment and SB: lines, the section keywords alone, a
\* section keyword followed by more text, and a blank line.
MaxText == 4

Comment == [kind |-> "comment", sec |-> "", qty |-> 0, foil |-> FALSE, id |-> 9,
            exact |-> NotFound, fuzzy |-> NotFound]
SBLine  == [kind |-> "comment", sec |-> "", qty |-> 0, foil |-> FALSE, id |-> 10,
            exact |-> NotFound, fuzzy |-> NotFound]
Headed  == [kind |-> "headed", sec |-> "commander", qty |-> 0, foil |-> FALSE, id |-> 11,
            exact |-> NotFound, fuzzy |-> NotFound]
Header(s) == [Section(s) EXCEPT !.id = CHOOSE n \in 12..15 :
                <<s, n>> \in {<<"deck", 12>>, <<"commander", 13>>,
                              <<"companion", 14>>, <<"sideboard", 15>>}]

ParseLines ==
  {Card(1, 1), Card(2, MaxParseQty), Card(16, 0), Card(17, MaxParseQty + 1),
   Junk, Blank, Comment, SBLine, Headed}
    \cup {Header(s) : s \in {"deck", "commander", "companion", "sideboard"}}

ParseTexts == UNION {[1..n -> ParseLines] : n \in 0..MaxText}

InitParse ==
  /\ inv = << >>
  /\ decks = InitDecks
  /\ nextId = 1
  /\ social = [group |-> TRUE, admins |-> {}]
  /\ op = NoOp
  /\ result = NoResult
  /\ pinv = << >>
  /\ pdecks = InitDecks
  /\ steps = 0
  /\ req \in {<<[text |-> text]>> : text \in ParseTexts}
  /\ stream = NoStream
  /\ events = << >>

ParseFrame == <<inv, decks, nextId, social, pinv, pdecks, steps, req, stream, events>>

ParseDecklist ==
  /\ op.name = "init"
  /\ result' = parse_decklist(req[1].text)
  /\ op' = [NoOp EXCEPT !.name = "parse_decklist"]
  /\ UNCHANGED ParseFrame

ParseMoxfield ==
  /\ op.name = "init"
  /\ result' = parse_moxfield_text(req[1].text)
  /\ op' = [NoOp EXCEPT !.name = "parse_moxfield_text"]
  /\ UNCHANGED ParseFrame

NextParse == ParseDecklist \/ ParseMoxfield

SpecParse == InitParse /\ [][NextParse]_vars


\* ---------------------------------------------------------- the tokenizer
\* parse_line on the text of one line.  A raw line is a sequence of tokens,
\* the maximal runs of non-blank characters, one blank between neighbours; the
\* token Pad stands for additional whitespace at that place.  The tokens:
\* quantities in the forms N, Nx, xN and xNx, card-name words (one, Foil, that
\* is also a foil marker, one in parentheses, one in quotes), set codes, a
\* collector number, foil markers and a comment marker.
MaxTokens == 4

Pad == " "
QtyTokens == {"1", "4", "99", "0", "100", "4x", "x4", "x4x"}
FoilTokens == {"*F*", "(foil)", "Foil"}
SetTokens == {"(LEA)", "(lea)", "(Used)"}
SkipTokens == {"#"}
WordTokens == {"Bolt", "148", "'Ach!'"}
Tokens == {Pad} \cup QtyTokens \cup FoilTokens \cup SetTokens \cup SkipTokens \cup WordTokens

NoCode == ""

\* int(qty_match.group(1))
Digits(tok) ==
  CASE tok \in {"4", "4x", "x4", "x4x"} -> 4
    [] tok = "1" -> 1
    [] tok = "99" -> 99
    [] tok = "0" -> 0
    [] tok = "100" -> 100

\* set_match.group(1).upper()
Upper(code) == IF code \in {"lea", "LEA"} THEN "LEA" ELSE IF code = "Used" THEN "USED" ELSE code

SetCodeOf(tok) ==
  CASE tok = "(LEA)" -> "LEA"
    [] tok = "(lea)" -> "lea"
    [] tok = "(Used)" -> "Used"

\* group 2 of _SET_RE on the token after the (SET) block: [A-Za-z0-9][A-Za-z0-9-]*
CollectorOf(tok) == IF tok \in QtyTokens \cup {"Bolt", "148"} THEN tok ELSE NoCode

\* str.strip() / str.lstrip() / str.rstrip() on the tokens of a line
RECURSIVE LStrip(_)
LStrip(line) == IF line # <<>> /\ Head(line) = Pad THEN LStrip(Tail(line)) ELSE line

RECURSIVE RStrip(_)
RStrip(line) ==
  IF line # <<>> /\ line[Len(line)] = Pad THEN RStrip(SubSeq(line, 1, Len(line) - 1)) ELSE line

Strip(line) == RStrip(LStrip(line))

\* .strip('"\'') on a name: quote characters leave its two ends
LUnquote(tok) == IF tok = "'Ach!'" THEN "Ach!'" ELSE tok
RUnquote(tok) == IF tok = "'Ach!'" THEN "'Ach!" ELSE IF tok = "Ach!'" THEN "Ach!" ELSE tok
Unquote(name) ==
  IF name = <<>> THEN name
  ELSE LET a == [name EXCEPT ![1] = LUnquote(@)] IN [a EXCEPT ![Len(a)] = RUnquote(@)]

\* _FOIL_PATTERNS.sub("", line): the marker goes, the whitespace around it stays
WithoutFoil(line) == [k \in 1..Len(line) |-> IF line[k] \in FoilTokens THEN Pad ELSE line[k]]

QuantityUpTo100(quantity) == quantity >= 1 /\ quantity <= MaxParseQty + 1

\* not (quantity < 1 or quantity > 99)
QuantityInRange(quantity) == quantity >= 1 /\ quantity <= MaxParseQty

parse_line_text(raw) ==
  LET line0 == Strip(raw) IN
  IF line0 = <<>> THEN NoLine
  ELSE IF Head(line0) \in SkipTokens THEN NoLine
  ELSE
  LET is_foil == \E k \in 1..Len(line0) : line0[k] \in FoilTokens
      line == Strip(WithoutFoil(line0))
  IN
  IF Len(line) < 2 \/ Head(line) \notin QtyTokens THEN NoLine
  ELSE IF ~QuantityInRange(Digits(Head(line))) THEN NoLine
  ELSE
  LET rest == LStrip(Tail(line))
      sets == {k \in 1..Len(rest) : rest[k] \in SetTokens}
      at == IF sets = {} THEN 0 ELSE CHOOSE k \in sets : \A j \in sets : k <= j
      after == IF at = 0 THEN <<>> ELSE LStrip(SubSeq(rest, at + 1, Len(rest)))
      name == Unquote(Strip(IF at = 0 THEN rest ELSE SubSeq(rest, 1, at - 1)))
  IN
  IF name = <<>> THEN NoLine
  ELSE [ok |-> TRUE, quantity |-> Digits(Head(line)), name |-> name,
        set_code |-> IF at = 0 THEN NoCode ELSE Upper(SetCodeOf(rest[at])),
        collector_number |-> IF after = <<>> THEN NoCode ELSE CollectorOf(Head(after)),
        is_foil |-> is_foil, is_sideboard |-> FALSE, raw |-> line0]

\* a ParsedLine written as "{qty} {name} ({SET}) {collector} *F*"
QtyText(quantity) == CASE quantity = 1 -> "1" [] quantity = 4 -> "4" [] quantity = 99 -> "99"

SetText(code) == CASE code = "LEA" -> "(LEA)" [] code = "lea" -> "(lea)"

Render(rec) ==
  <<QtyText(rec.quantity)>> \o rec.name
    \o (IF rec.set_code = NoCode THEN <<>> ELSE <<SetText(rec.set_code)>>)
    \o (IF rec.collector_number = NoCode THEN <<>> ELSE <<rec.collector_number>>)
    \o (IF rec.is_foil THEN <<"*F*">> ELSE <<>>)

RawLineTexts == UNION {[1..n -> Tokens] : n \in 0..MaxTokens}

Names == {<<"Bolt">>, <<"Bolt", "148">>, <<"Foil">>, <<"Bolt", "(Used)">>, <<"'Ach!'">>}

Records ==
  [quantity : {1, 4, 99}, name : Names, set_code : {NoCode, "LEA", "lea"},
   collector_number : {NoCode, "148"}, is_foil : BOOLEAN]

NoRecord ==
  [quantity |-> 0, name |-> <<>>, set_code |-> NoCode, collector_number |-> NoCode,
   is_foil |-> FALSE]

InitLine ==
  /\ inv = << >>
  /\ decks = InitDecks
  /\ nextId = 1
  /\ social = [group |-> TRUE, admins |-> {}]
  /\ op = NoOp
  /\ result = NoLine
  /\ pinv = << >>
  /\ pdecks = InitDecks
  /\ steps = 0
  /\ req \in {<<[raw |-> raw, rec |-> NoRecord]>> : raw \in RawLineTexts}
             \cup {<<[raw |-> <<>>, rec |-> rec]>> : rec \in Records}
  /\ stream = NoStream
  /\ events = << >>

\* parse_line(raw)
ParseLine ==
  /\ op.name = "init"
  /\ req[1].rec = NoRecord
  /\ result' = parse_line_text(req[1].raw)
  /\ op' = [NoOp EXCEPT !.name = "parse_line"]
  /\ UNCHANGED ParseFrame

\* parse_line of the text written for a record
RenderParse ==
  /\ op.name = "init"
  /\ req[1].rec # NoRecord
  /\ result' = parse_line_text(Render(req[1].rec))
  /\ op' = [NoOp EXCEPT !.name = "render_parse"]
  /\ UNCHANGED ParseFrame

NextLine == ParseLine \/ RenderParse

SpecLine == InitLine /\ [][NextLine]_vars


\* ------------------------------------------------------- edit_card's JSON
\* POST /box/<i>/edit with the values a JSON body can carry for quantity and
\* purchase_price_usd: an integer, a number with a fraction, a string (a number
\* written out, or not), null.  [t, n, frac, ok, nan]: the type, the whole part
\* of the number (or the number a string spells), whether it has a fraction,
\* whether Python can convert the string, whether it is "nan".
JInt(n)   == [t |-> "int", n |-> n, frac |-> FALSE, ok |-> TRUE, nan |-> FALSE]
JFloat(n) == [t |-> "float", n |-> n, frac |-> TRUE, ok |-> TRUE, nan |-> FALSE]
JStr(n)   == [t |-> "str", n |-> n, frac |-> FALSE, ok |-> TRUE, nan |-> FALSE]
JWord     == [t |-> "str", n |-> 0, frac |-> FALSE, ok |-> FALSE, nan |-> FALSE]
JNaN      == [t |-> "str", n |-> 0, frac |-> FALSE, ok |-> TRUE, nan |-> TRUE]
JNull     == [t |-> "null", n |-> 0, frac |-> FALSE, ok |-> FALSE, nan |-> FALSE]

\* a float that is no number: it is not below 0 and not above
NaN == 1000

\* int(qty): a number loses its fraction, a string must spell an integer;
\* TypeError and ValueError are the results with ok = FALSE
IntOf(x) ==
  IF x.t = "null" \/ ~x.ok \/ x.nan THEN [ok |-> FALSE, v |-> 0]
  ELSE [ok |-> TRUE, v |-> x.n]

\* float(purchase), for a purchase that is neither None nor ""
FloatOf(x) ==
  IF ~x.ok THEN [ok |-> FALSE, v |-> 0]
  ELSE IF x.nan THEN [ok |-> TRUE, v |-> NaN]
  ELSE [ok |-> TRUE, v |-> x.n]

\* the validation of the body, then the handler on the converted values
edit_card_json(S, u, i, json) ==
  LET I == S.inv
      qty == IntOf(json.quantity)
      purchase == IF json.purchase.t = "null" THEN [ok |-> TRUE, v |-> None]
                  ELSE FloatOf(json.purchase)
  IN
  IF ~(i \in DOMAIN I /\ I[i].user = u) THEN Rejected(S, "404")
  ELSE IF ~qty.ok THEN Rejected(S, "400")
  ELSE IF qty.v < 1 \/ qty.v > MaxEditQty THEN Rejected(S, "400")
  ELSE IF json.condition \notin Conditions THEN Rejected(S, "400")
  ELSE IF ~purchase.ok THEN Rejected(S, "400")
  ELSE IF purchase.v # NaN /\ purchase.v < 0 THEN Rejected(S, "400")
  ELSE edit_card(S, u, i, [json EXCEPT !.quantity = qty.v, !.purchase = purchase.v])

JsonBodies ==
  { [EditData(q, sid, Absent, Absent) EXCEPT !.condition = c, !.purchase = pr, !.load_ok = l]
    : q \in {JInt(0), JInt(1), JInt(2), JInt(99), JInt(100), JFloat(2), JStr(3), JWord, JNull},
      c \in {"NM", "PO", "Mint"}, pr \in {JNull, JInt(5), JInt(-5), JWord, JNaN},
      sid \in {None, 2}, l \in BOOLEAN }

EditLedger ==
  << [Inventory(1, 1, 2, FALSE, "EX", Box, FALSE, 1) EXCEPT !.price = 5],
     Inventory(1, 2, 1, FALSE, "NM", Box, FALSE, None),
     Inventory(2, 1, 1, FALSE, "NM", Box, FALSE, None) >>

InitEdit ==
  /\ inv = EditLedger
  /\ decks = InitDecks
  /\ nextId = Len(EditLedger) + 1
  /\ social = [group |-> TRUE, admins |-> {}]
  /\ op = NoOp
  /\ result = NoResult
  /\ pinv = EditLedger
  /\ pdecks = InitDecks
  /\ steps = 0
  /\ req = << >>
  /\ stream = NoStream
  /\ events = << >>

EditCardJson ==
  /\ steps < 1
  /\ \E u \in Users, i \in DOMAIN inv, json \in JsonBodies :
       \E r \in edit_card_json(Cur, u, i, json) :
         /\ inv' = r.inv
         /\ decks' = r.decks
         /\ nextId' = r.next
         /\ op' = [name |-> "edit_card", actor |-> u, src |-> i, qty |-> 0, dst |-> 0,
                   flag |-> Absent, out |-> r.out]
         /\ req' = <<json>>
  /\ steps' = steps + 1
  /\ pinv' = inv
  /\ pdecks' = decks
  /\ UNCHANGED <<social, result, stream, events>>

NextEdit == EditCardJson

SpecEdit == InitEdit /\ [][NextEdit]_vars

\* ------------------------------------------------------ concurrent imports
\* Two import requests handled at the same time, each in its own database
\* session, each importing one line of one unit.  req[p] is request p: its
\* user, printing and destination (the Box, or deck 1 through
\* _upsert_deck_row), its position in the importer, and what its look-up
\* returned.  inv is the committed table: a session's own pending INSERT or
\* UPDATE reaches it with db.session.commit().  Inventory has no unique
\* constraint on the identity key.
Importers == {1, 2}

RaceRequests ==
  [user : Users, card : Cards, deck : {Box, 1}, pc : {"lookup"}, seen : {None}, seenQty : {0}]

InitRace ==
  /\ inv \in {<< >>, <<Inventory(1, 1, 1, FALSE, "NM", Box, FALSE, None)>>}
  /\ decks = InitDecks
  /\ nextId = Len(inv) + 1
  /\ social = [group |-> TRUE, admins |-> {}]
  /\ op = NoOp
  /\ result = NoResult
  /\ pinv = inv
  /\ pdecks = InitDecks
  /\ steps = 0
  /\ req \in [Importers -> RaceRequests]
  /\ stream = NoStream
  /\ events = << >>

\* existing = Inventory.query.filter_by(...).first()
RaceLookup ==
  \E p \in Importers :
    /\ req[p].pc = "lookup"
    /\ \E e \in First(MatchesSb(inv, req[p].user, req[p].card, FALSE, req[p].deck, FALSE)) :
         req' = [req EXCEPT ![p].pc = "write", ![p].seen = e,
                            ![p].seenQty = IF e = None THEN 0 ELSE inv[e].qty]
    /\ UNCHANGED <<inv, nextId>>
    /\ UNCHANGED <<decks, social, op, result, pinv, pdecks, steps, stream, events>>

\* existing.quantity += qty, or db.session.add(Inventory(...)): pending in the session
RaceWrite ==
  \E p \in Importers :
    /\ req[p].pc = "write"
    /\ req' = [req EXCEPT ![p].pc = "commit"]
    /\ UNCHANGED <<inv, nextId>>
    /\ UNCHANGED <<decks, social, op, result, pinv, pdecks, steps, stream, events>>

CommitLookingAgain(I, n, r) ==
  LET M == MatchesSb(I, r.user, r.card, FALSE, r.deck, FALSE) IN
  IF M # {} THEN [I EXCEPT ![CHOOSE j \in M : TRUE].qty = @ + 1]
  ELSE Add(I, n, Inventory(r.user, r.card, 1, FALSE, "NM", r.deck, FALSE, None))

\* the table after db.session.commit() of request r: the UPDATE or the INSERT
\* the session decided on at its look-up
Committed(I, n, r) ==
  IF r.seen # None
  THEN IF r.seen \in DOMAIN I THEN [I EXCEPT ![r.seen].qty = r.seenQty + 1] ELSE I
  ELSE Add(I, n, Inventory(r.user, r.card, 1, FALSE, "NM", r.deck, FALSE, None))

RaceCommit ==
  \E p \in Importers :
    /\ req[p].pc = "commit"
    /\ inv' = Committed(inv, nextId, req[p])
    /\ nextId' = IF Len(inv') > Len(inv) THEN nextId + 1 ELSE nextId
    /\ req' = [req EXCEPT ![p].pc = "done"]
    /\ UNCHANGED <<decks, social, op, result, pinv, pdecks, steps, stream, events>>

NextRace == RaceLookup \/ RaceWrite \/ RaceCommit

SpecRace == InitRace /\ [][NextRace]_vars


\* ----------------------------------------------- the colour identity helper
\* _compute_color_identity applied to a deck's rows.  req is deck.cards as the
\* query returns it; events is the sequence the helper was applied to (the same
\* rows, or the rows in another order and with other quantities); result.ci is
\* what it returned.  Card.color_identity is "".join of Scryfall's list.
MaxRows == 3

\* decks of up to MaxRows rows; a row's card is there, with one of five colour
\* identities, or missing
ColourDecks ==
  LET cards == {[exists |-> TRUE, color_identity |-> ci]
                  : ci \in {<< >>, <<"W">>, <<"B">>, <<"U", "G">>, <<"R", "W">>}}
                 \cup {[exists |-> FALSE, color_identity |-> << >>]}
  IN  UNION {[1..n -> [card : cards, qty : 1..2]] : n \in 0..MaxRows}

InitColour ==
  /\ inv = << >>
  /\ decks = InitDecks
  /\ nextId = 1
  /\ social = [group |-> TRUE, admins |-> {}]
  /\ op = NoOp
  /\ result = NoResult
  /\ pinv = << >>
  /\ pdecks = InitDecks
  /\ steps = 0
  /\ req \in ColourDecks
  /\ stream = NoStream
  /\ events = << >>

\* the helper on the deck's rows as they are
ComputeColorIdentity ==
  /\ op.name = "init"
  /\ op' = [op EXCEPT !.name = "_compute_color_identity"]
  /\ events' = req
  /\ result' = [ci |-> JoinColors(req)]
  /\ UNCHANGED <<inv, decks, nextId, social, pinv, pdecks, steps, req, stream>>

\* the helper on the same rows last to first, each with another quantity
ComputeReordered ==
  /\ op.name = "init"
  /\ \E q \in 1..2 :
       /\ events' = [k \in 1..Len(req) |-> [req[Len(req) + 1 - k] EXCEPT !.qty = q]]
       /\ result' = [ci |-> JoinColors(events')]
  /\ op' = [op EXCEPT !.name = "reordered"]
  /\ UNCHANGED <<inv, decks, nextId, social, pinv, pdecks, steps, req, stream>>

NextColour == ComputeColorIdentity \/ ComputeReordered

SpecColour == InitColour /\ [][NextColour]_vars


\* ================================================================ claims
\* the identity key of a row: (user, printing, foil, deck, sideboard flag), the
\* sideboard flag not counting for a Box row
Key(r) == <<r.user, r.card, r.foil, r.deck, IF r.deck = Box THEN FALSE ELSE r.sb>>

RECURSIVE SumQty(_, _)
SumQty(I, S) ==
  IF S = {} THEN 0
  ELSE LET j == CHOOSE x \in S : TRUE IN I[j].qty + SumQty(I, S \ {j})

\* units held at a key, by one user, and in all
UnitsAtKey(I, k) == SumQty(I, {j \in DOMAIN I : Key(I[j]) = k})
UnitsOfUser(I, u, c, f) ==
  SumQty(I, {j \in DOMAIN I : I[j].user = u /\ I[j].card = c /\ I[j].foil = f})
UnitsOf(I, c, f) == SumQty(I, {j \in DOMAIN I : I[j].card = c /\ I[j].foil = f})

Handled(names) == op.name \in names /\ op.out \notin {"400", "403", "404", "500", "denied", "empty"}
SrcRow == pinv[op.src]

\* C1 (I1, uniqueness): after any sequence of ledger requests no two Inventory
\* rows share the identity key (user, printing, foil, deck, sideboard flag).
C1_Uniqueness ==
  \A i \in DOMAIN inv, j \in DOMAIN inv : i # j => Key(inv[i]) # Key(inv[j])

\* C2 (conservation): add_card, remove_card and transfer of q units, 1 <= q <=
\* source quantity, lower the source row by exactly q (the row is deleted, or
\* relocated, when q is all of it), raise the units the actor holds of that
\* printing and foil at the destination (the target deck, or the Box) by exactly
\* q, and leave the units of that printing and foil in all rows unchanged.
C2_Dest == IF op.name = "remove_card" THEN Box ELSE op.dst
C2_UnitsAtDest(I) == SumQty(I, Matches(I, op.actor, SrcRow.card, SrcRow.foil, C2_Dest))

C3_MoveConserves ==
  Handled({"move_card"})
  => UnitsOfUser(inv, op.actor, SrcRow.card, SrcRow.foil)
       = UnitsOfUser(pinv, op.actor, SrcRow.card, SrcRow.foil)

\* C4 (I2, positive quantity): every Inventory row has quantity >= 1.
C4_PositiveQuantity == \A i \in DOMAIN inv : inv[i].qty >= 1

\* C5: a request to move more units than the source row holds is rejected and
\* leaves the ledger unchanged (add_card, remove_card, move_card, transfer).
C5_NoClamp ==
  (op.name \in {"add_card", "remove_card", "move_card", "transfer"}
     /\ op.src \in DOMAIN pinv /\ op.qty > SrcRow.qty)
  => op.out = "400" /\ inv = pinv /\ decks = pdecks

\* C6: a printing substitution by edit_card substitutes exactly one unit.  Source
\* of quantity 1 and a row of the new printing (and requested foil) in the same
\* place: the source is deleted and that row gains 1.  Source of quantity 1 and no
\* such row: the source row itself takes the new printing, still one unit.  Source
\* of quantity N > 1: the source keeps the old printing with N - 1 and the new
\* printing gains exactly 1 there, on the row it had or on a new row of quantity 1.
C6_Foil == IF op.flag = Absent THEN SrcRow.foil ELSE Bool(op.flag)
C6_There == Matches(pinv, SrcRow.user, op.dst, C6_Foil, SrcRow.deck) \ {op.src}
C6_OthersKept(touched) == \A k \in (DOMAIN pinv) \ touched : k \in DOMAIN inv /\ inv[k] = pinv[k]

C6_Substitution ==
  (Handled({"edit_card"}) /\ op.dst # None /\ op.dst # SrcRow.card)
  => IF SrcRow.qty = 1 /\ C6_There # {}
     THEN /\ DOMAIN inv = (DOMAIN pinv) \ {op.src}
          /\ \E j \in C6_There : inv[j].qty = pinv[j].qty + 1 /\ C6_OthersKept({op.src, j})
     ELSE IF SrcRow.qty = 1
     THEN /\ DOMAIN inv = DOMAIN pinv
          /\ inv[op.src].card = op.dst /\ inv[op.src].qty = 1
          /\ inv[op.src].user = SrcRow.user /\ inv[op.src].deck = SrcRow.deck
          /\ C6_OthersKept({op.src})
     ELSE /\ op.src \in DOMAIN inv
          /\ inv[op.src].card = SrcRow.card /\ inv[op.src].qty = SrcRow.qty - 1
          /\ IF C6_There # {}
             THEN /\ DOMAIN inv = DOMAIN pinv
                  /\ \E j \in C6_There : inv[j].qty = pinv[j].qty + 1 /\ C6_OthersKept({op.src, j})
             ELSE \E n \in (DOMAIN inv) \ (DOMAIN pinv) :
                    /\ DOMAIN inv = (DOMAIN pinv) \cup {n}
                    /\ inv[n].qty = 1 /\ inv[n].card = op.dst /\ inv[n].foil = C6_Foil
                    /\ inv[n].user = SrcRow.user /\ inv[n].deck = SrcRow.deck
                    /\ C6_OthersKept({op.src})

\* C9: after add_card, remove_card, transfer into a deck, a bulk import into a
\* deck, a printing substitution on a deck row, and after move_card for both its
\* source deck and its target deck, the deck's stored colour identity is the one
\* computed from the rows the deck now holds.
C9_Touched ==
  IF Handled({"add_card", "remove_card", "transfer", "deck_import"}) THEN {op.dst}
  ELSE IF Handled({"move_card"}) THEN {SrcRow.deck, op.dst}
  ELSE IF Handled({"edit_card"}) /\ op.dst # None /\ op.dst # SrcRow.card THEN {SrcRow.deck}
  ELSE {}

C9_ColorIdentityFresh ==
  \A d \in C9_Touched \ {Box} :
    decks[d].exists => decks[d].ci = _compute_color_identity(inv, d)


\* C7 (idempotent import): after the same list was imported twice by one user
\* into a Box that was empty, the Box holds exactly the rows of the single
\* import, each with twice its quantity; an import never leaves two Box rows
\* of one (user, printing, foil); and after one import into the empty Box the
\* units of each printing and foil are the sum over the lines resolving to it
\* (an import that ended with an exception has imported nothing).
RECURSIVE LineUnits(_, _, _, _)
LineUnits(parsed, k, c, f) ==
  IF k > Len(parsed) THEN 0
  ELSE (IF Resolve(parsed[k]).card = c /\ parsed[k].is_foil = f THEN parsed[k].quantity ELSE 0)
         + LineUnits(parsed, k + 1, c, f)

C7_SameTwice == Len(req) = 2 /\ req[1].user = req[2].user /\ req[1].text = req[2].text

C7_IdempotentImport ==
  /\ C7_SameTwice
       => /\ DOMAIN inv = DOMAIN pinv
          /\ \A j \in DOMAIN inv : inv[j].qty = 2 * pinv[j].qty /\ Key(inv[j]) = Key(pinv[j])
  /\ \A i \in DOMAIN inv, j \in DOMAIN inv :
       (i # j /\ inv[i].user = inv[j].user /\ inv[i].card = inv[j].card) => inv[i].foil # inv[j].foil
  /\ (Len(req) = 1 /\ op.out = "ok")
       => \A c \in Cards, f \in BOOLEAN :
            UnitsOfUser(inv, req[1].user, c, f) = LineUnits(parse_decklist(req[1].text).parsed, 1, c, f)

\* the list "1 <printing 1>, 1 <other name of printing 1>" imported twice: one row of 4
C7_Witness ==
  /\ C7_SameTwice
  /\ req[1].text = <<Card(1, 1), Alias>>
  /\ \E j \in DOMAIN inv : DOMAIN inv = {j} /\ inv[j].qty = 4 /\ pinv[j].qty = 2

\* C8 as stated: a Box import writes its location hint onto the rows it creates
\* and never changes the location of a row that existed before it, whether that
\* location was set or empty.
C8_Hint == req[Len(req)].loc

C8_LocationNeverChanged ==
  Len(req) >= 1
  => /\ \A j \in (DOMAIN inv) \ (DOMAIN pinv) : inv[j].loc = C8_Hint
     /\ \A j \in DOMAIN pinv : j \in DOMAIN inv /\ inv[j].loc = pinv[j].loc

\* C8 amended: a Box import writes its location hint onto the rows it creates
\* and never changes a location that was set; a row that existed with an empty
\* location and gains units from the import takes the hint.
C8_LocationHint ==
  Len(req) >= 1
  => /\ \A j \in (DOMAIN inv) \ (DOMAIN pinv) : inv[j].loc = C8_Hint
     /\ \A j \in DOMAIN pinv :
          /\ j \in DOMAIN inv
          /\ inv[j].loc = IF pinv[j].loc = None /\ inv[j].qty # pinv[j].qty
                          THEN C8_Hint ELSE pinv[j].loc

\* a row shelved at location 1 gains units from an import hinted 2 and stays at 1
C8_Witness ==
  /\ Len(req) >= 2 /\ C8_Hint = 2
  /\ \E j \in DOMAIN pinv :
       pinv[j].loc = 1 /\ inv[j].qty > pinv[j].qty /\ inv[j].loc = 1

\* C10 (streaming event order): a streaming import with import text that passes
\* its preconditions writes one start event whose total is the number of
\* tokenized requests, then one progress event per request, in input order,
\* with current = 1, 2, ..., total and that total, then one done event, which
\* is the last event; a stream whose precondition fails is a single error
\* event; and no error event follows a start, progress or done event.
\* (/decks/new-stream announces the deck it created before the start event.)
C10_Body ==
  IF Len(events) >= 1 /\ events[1].type = "deck_created" THEN Tail(events) ELSE events

C10_Tokenized ==
  (IF stream.moxfield THEN parse_moxfield_text(stream.text) ELSE parse_decklist(stream.text)).parsed

C10_InOrder(body) ==
  LET total == Len(C10_Tokenized) IN
  \A i \in 1..Len(body) :
    IF i = 1 THEN body[i].type = "start" /\ body[i].total = total
    ELSE IF i <= total + 1
    THEN /\ body[i].type = "progress"
         /\ body[i].current = i - 1
         /\ body[i].total = total
         /\ body[i].card = C10_Tokenized[i - 1].name
    ELSE i = total + 2 /\ body[i].type = "done"

C10_StreamingEventOrder ==
  /\ (stream.kind # "none" /\ ~stream.passed) => events = <<ErrorEvent>>
  /\ (stream.passed /\ stream.has_import)
       => /\ C10_InOrder(C10_Body)
          /\ stream.pc = "closed" => Len(C10_Body) = Len(C10_Tokenized) + 2
  /\ \A i \in 1..Len(events), j \in 1..Len(events) :
       (i < j /\ events[j].type = "error") => events[i].type \notin {"start", "progress", "done"}

\* C11 (streaming imports commit incrementally): when the caller closes the
\* stream after k progress events, the units of the requests reported as
\* imported by those events remain in the committed ledger.
RECURSIVE ReportedUnits(_, _, _, _)
ReportedUnits(successes, k, c, f) ==
  IF k > Len(successes) THEN 0
  ELSE (IF successes[k].card = c /\ successes[k].is_foil = f THEN successes[k].quantity ELSE 0)
         + ReportedUnits(successes, k + 1, c, f)

C11_CancelKeepsProgress ==
  op.out = "cancelled"
  => \A c \in Cards, f \in BOOLEAN :
       UnitsOfUser(inv, stream.user, c, f)
         = UnitsOfUser(pinv, stream.user, c, f) + ReportedUnits(result.successes, 1, c, f)

\* C12 (ordering within one batch import).  The request's text is the last
\* entry of req; a line's raw text is its id.
LastText == req[Len(req)].text

RawLines(text) == [k \in 1..Len(text) |-> text[k].id]

FailedLines(failures) == [k \in 1..Len(failures) |-> failures[k].line]

\* s, from its i-th entry on, is found in t, from its j-th entry on, in order
RECURSIVE InOrderFrom(_, _, _, _)
InOrderFrom(s, i, t, j) ==
  IF i > Len(s) THEN TRUE
  ELSE IF j > Len(t) THEN FALSE
  ELSE IF s[i] = t[j] THEN InOrderFrom(s, i + 1, t, j + 1)
  ELSE InOrderFrom(s, i, t, j + 1)

\* the success entry e can be the outcome of the input line
SuccessOf(e, line) ==
  /\ line.kind = "card"
  /\ e.quantity = line.qty
  /\ e.is_foil = line.foil
  /\ e.card \in {line.exact, line.fuzzy}

RECURSIVE SuccessesInOrderFrom(_, _, _, _)
SuccessesInOrderFrom(s, i, text, j) ==
  IF i > Len(s) THEN TRUE
  ELSE IF j > Len(text) THEN FALSE
  ELSE IF SuccessOf(s[i], text[j]) THEN SuccessesInOrderFrom(s, i + 1, text, j + 1)
  ELSE SuccessesInOrderFrom(s, i, text, j + 1)

C12_Imported == op.name \in {"box_import", "box_import_stream"} /\ op.out = "ok"

\* C12 as stated: the successes are in input-line order and so is the whole
\* failures list: no failure of an earlier line comes after one of a later line.
C12_InputLineOrder ==
  C12_Imported
  => /\ SuccessesInOrderFrom(result.successes, 1, LastText, 1)
     /\ InOrderFrom(FailedLines(result.failures), 1, RawLines(LastText), 1)

\* C12 amended: the successes are in input-line order; the failures list is
\* the parse failures in input-line order followed by the resolution failures
\* in input-line order.
C12_OrderWithinKind ==
  C12_Imported
  => /\ SuccessesInOrderFrom(result.successes, 1, LastText, 1)
     /\ \E m \in 0..Len(result.failures) :
          LET f == result.failures
              parse == SubSeq(f, 1, m)
              resolution == SubSeq(f, m + 1, Len(f))
          IN  /\ \A k \in 1..Len(parse) : parse[k].reason = "parse"
              /\ \A k \in 1..Len(resolution) : resolution[k].reason # "parse"
              /\ InOrderFrom(FailedLines(parse), 1, RawLines(LastText), 1)
              /\ InOrderFrom(FailedLines(resolution), 1, RawLines(LastText), 1)

\* an import whose first line fails to resolve and whose second fails to parse
C12_Witness ==
  /\ C12_Imported
  /\ Len(LastText) = 2
  /\ LastText[1] = Unknown
  /\ LastText[2] = Junk
  /\ Len(result.failures) = 2
  /\ result.failures[1].reason = "parse"

\* C13 (a batch import is not all-or-nothing): a request for a Box import is
\* answered with a result, never with an exception of the resolver; every
\* tokenized request of its text is one entry of successes or one resolution
\* failure; the failures are the parse failures followed by the resolution
\* failures, each with a raw line of the text and a reason.
Tokenized(line) == line.kind = "card" /\ line.qty \in 1..MaxParseQty

CountLines(text, P(_)) == Cardinality({k \in 1..Len(text) : P(text[k])})

C13_NotAllOrNothing ==
  op.name \in {"box_import", "box_import_stream"}
  => /\ op.out = "ok"
     /\ LET f == result.failures
            resolution == {k \in 1..Len(f) : f[k].reason # "parse"}
        IN  /\ Len(result.successes) + Cardinality(resolution)
                 = CountLines(LastText, Tokenized)
            /\ \A k \in 1..Len(f) :
                 /\ \E j \in 1..Len(LastText) : LastText[j].id = f[k].line
                 /\ f[k].reason \in {"parse", "Card not found", "Scryfall error"}
                 /\ \A j \in 1..(k - 1) : f[k].reason = "parse" => f[j].reason = "parse"

\* C14 (resolver fallback policy), on the lookups the importer made for the
\* last request (req[..].calls) and the failures it recorded (req[..].recorded):
\* every tokenized request is looked up once without fuzzy matching; a second
\* lookup is made exactly when the first answered not found, for the same line,
\* by name only and with fuzzy matching; after a transient failure of the first
\* lookup there is no second one and the line is recorded as a failure with the
\* error's message.
LastCalls == req[Len(req)].calls

C14_ResolverFallback ==
  Len(req) > 0
  => LET c == LastCalls IN
     /\ Cardinality({i \in 1..Len(c) : ~c[i].fuzzy}) <= CountLines(LastText, Tokenized)
     /\ op.out = "ok"
          => Cardinality({i \in 1..Len(c) : ~c[i].fuzzy}) = CountLines(LastText, Tokenized)
     /\ \A i \in 1..Len(c) :
          c[i].fuzzy => /\ i > 1
                        /\ ~c[i - 1].fuzzy
                        /\ c[i - 1].line = c[i].line
                        /\ c[i - 1].answer = NotFound
                        /\ c[i].args = "name"
     /\ \A i \in 1..Len(c) :
          (~c[i].fuzzy /\ c[i].answer = NotFound)
            => i < Len(c) /\ c[i + 1].fuzzy /\ c[i + 1].line = c[i].line
     /\ \A i \in 1..Len(c) :
          (~c[i].fuzzy /\ c[i].answer = Transient)
            => \E k \in 1..Len(req[Len(req)].recorded) :
                 req[Len(req)].recorded[k] = [line |-> c[i].line, reason |-> "Scryfall error"]

\* a list with a name only the fuzzy search finds and a name whose lookup fails
\* transiently: three lookups, one failure
C14_Witness ==
  /\ Len(req) > 0
  /\ LastText = <<Alias, Flaky>>
  /\ Len(LastCalls) = 3
  /\ LastCalls[2].fuzzy
  /\ op.out = "ok"
  /\ result.failures = <<[line |-> Flaky.id, reason |-> "Scryfall error"]>>

\* C15 (the dialect parsers partition the input lines): a blank line, a comment
\* line, an SB: line and a bare section keyword yield nothing; every other line
\* of the text yields one parsed request or one failure with its text, so the
\* requests and failures together are as many as the other lines.
C15_SkipLine(line) == line.kind \in {"blank", "comment", "section"}

C15_Yield(p, id) ==
  Cardinality({k \in 1..Len(p.parsed) : p.parsed[k].raw = id})
    + Cardinality({k \in 1..Len(p.failures) : p.failures[k].line = id})

C15_Partition ==
  op.name \in {"parse_decklist", "parse_moxfield_text"}
  => /\ Len(result.parsed) + Len(result.failures)
          = Cardinality({k \in 1..Len(LastText) : ~C15_SkipLine(LastText[k])})
     /\ \A line \in ParseLines :
          C15_Yield(result, line.id)
            = IF C15_SkipLine(line) THEN 0
              ELSE Cardinality({k \in 1..Len(LastText) : LastText[k] = line})

\* C16 (sectioned dialect): the requests of parse_moxfield_text are the card
\* lines of the text in order, and each is tagged is_sideboard exactly when the
\* nearest section header line above it is Sideboard; a request with no header
\* above it, or below Deck, Commander or Companion, is not tagged; a header
\* line gives no request and no failure.
C16_Headers(text, k) == {j \in 1..(k - 1) : text[j].kind = "section"}

C16_UnderSideboard(text, k) ==
  /\ C16_Headers(text, k) # {}
  /\ text[CHOOSE j \in C16_Headers(text, k) : \A i \in C16_Headers(text, k) : i <= j].sec
       = "sideboard"

\* the position in the text of the n-th card line that tokenizes
C16_Position(text, n) ==
  CHOOSE k \in 1..Len(text) :
    /\ Tokenized(text[k])
    /\ Cardinality({j \in 1..k : Tokenized(text[j])}) = n

C16_SideboardTag ==
  op.name = "parse_moxfield_text"
  => /\ Len(result.parsed) = CountLines(LastText, Tokenized)
     /\ \A n \in 1..Len(result.parsed) :
          /\ result.parsed[n].raw = LastText[C16_Position(LastText, n)].id
          /\ result.parsed[n].is_sideboard
               = C16_UnderSideboard(LastText, C16_Position(LastText, n))
     /\ \A k \in 1..Len(LastText) :
          LastText[k].kind = "section" => C15_Yield(result, LastText[k].id) = 0

\* "Deck / 1 Sol Ring / Sideboard / 1 Lightning Bolt": two requests, only the
\* second tagged
C16_Witness ==
  /\ op.name = "parse_moxfield_text"
  /\ LastText = <<Header("deck"), Card(1, 1), Header("sideboard"), Card(2, MaxParseQty)>>
  /\ Len(result.parsed) = 2
  /\ ~result.parsed[1].is_sideboard
  /\ result.parsed[2].is_sideboard

\* C17 (tokenizer quantity boundary), for parse_line on a raw line.  The
\* leading token is the first one that is neither whitespace nor a foil
\* marker; the line has a name when a token follows the leading one, again
\* past whitespace and foil markers, that is no (SET) block.
C17_Words(raw) == SelectSeq(raw, LAMBDA t : t \notin {Pad} \cup FoilTokens)

C17_Forms == {"1", "4", "99", "0", "100", "4x", "x4"}

C18_RoundTrip ==
  op.name = "render_parse"
  => /\ result.ok
     /\ result.quantity = req[1].rec.quantity
     /\ result.name = req[1].rec.name
     /\ result.set_code = Upper(req[1].rec.set_code)
     /\ result.collector_number = req[1].rec.collector_number
     /\ result.is_foil = req[1].rec.is_foil

\* C19 (transfer only between friends): a transfer that is carried out took
\* from a Box record, of another user than the acting one, who shares a friend
\* group with the acting user; every other transfer request is refused and
\* leaves the ledger as it was.
C19_TransferOnlyBetweenFriends ==
  op.name = "transfer"
  => /\ op.out = "ok"
          => /\ pinv[op.src].deck = Box
             /\ pinv[op.src].user # op.actor
             /\ shares_group_with(op.actor, pinv[op.src].user)
     /\ op.out # "ok" => (inv = pinv /\ decks = pdecks)

\* C20 (delete_deck never destroys units): after a deck was deleted, every
\* record that was in it, whoever owns it, is a Box record of the same owner
\* with the same printing, foil and quantity, and every user has as many units
\* of each printing and foil as before.
C20_DeleteKeepsUnits ==
  (op.name = "delete_deck" /\ op.out = "ok")
  => /\ \A j \in DOMAIN pinv :
          pinv[j].deck = op.dst
            => /\ j \in DOMAIN inv
               /\ inv[j].deck = Box
               /\ inv[j].user = pinv[j].user
               /\ inv[j].card = pinv[j].card
               /\ inv[j].foil = pinv[j].foil
               /\ inv[j].qty = pinv[j].qty
     /\ \A u \in Users, c \in Cards, f \in BOOLEAN :
          UnitsOfUser(inv, u, c, f) = UnitsOfUser(pinv, u, c, f)

\* a deleted deck that held a record of a user who is not its owner
C20_Witness ==
  /\ op.name = "delete_deck"
  /\ op.out = "ok"
  /\ \E j \in DOMAIN pinv : pinv[j].deck = op.dst /\ pinv[j].user # op.actor
  /\ \E j \in DOMAIN inv : inv[j].deck = Box /\ inv[j].user # op.actor

\* C21 (concurrent imports): when two imports of the same printing for the
\* same user and destination have both looked up before either committed, and
\* both found no record, both insert: the committed table then holds two
\* records with one identity key.
C21_SameRequest ==
  /\ req[1].user = req[2].user
  /\ req[1].card = req[2].card
  /\ req[1].deck = req[2].deck

C21_BothInsert ==
  (/\ C21_SameRequest
   /\ \A p \in Importers : req[p].pc = "done" /\ req[p].seen = None)
  => \E i \in DOMAIN inv, j \in DOMAIN inv :
       /\ i # j
       /\ Key(inv[i]) = Key(inv[j])
       /\ Key(inv[i]) = <<req[1].user, req[1].card, FALSE, req[1].deck, FALSE>>

\* two finished imports of one printing into the empty Box of one user, and
\* two Box records of it
C21_Witness ==
  /\ C21_SameRequest
  /\ pinv = << >>
  /\ \A p \in Importers : req[p].pc = "done" /\ req[p].seen = None
  /\ Len(inv) = 2
  /\ Key(inv[1]) = Key(inv[2])
  /\ ~C1_Uniqueness

\* C22 (edit_card validation): a request whose quantity is not an integer in
\* 1..99, whose condition is not one of the six values, or whose purchase price
\* is negative or not a number is rejected; a rejected request, also one whose
\* new printing cannot be loaded, changes no record.
C22_IntegerInRange(x) == x.t \in {"int", "str"} /\ x.ok /\ ~x.nan /\ ~x.frac /\ x.n \in 1..99

C22_Price(x) == x.t = "null" \/ (x.t \in {"int", "float"} /\ x.n >= 0) \/ (x.t = "str" /\ x.ok /\ ~x.nan /\ x.n >= 0)

C22_Rejected == op.out \in {"400", "404", "403", "500"}

C22_Validation ==
  (op.name = "edit_card" /\ req # << >>)
  => LET json == req[1] IN
     /\ (\/ ~C22_IntegerInRange(json.quantity)
         \/ json.condition \notin Conditions
         \/ ~C22_Price(json.purchase)) => C22_Rejected
     /\ (json.sid # None /\ json.sid # pinv[op.src].card /\ ~json.load_ok
           /\ pinv[op.src].user = op.actor) => C22_Rejected
     /\ C22_Rejected => (inv = pinv /\ decks = pdecks)

\* C23 (full move in place): when add_card, remove_card, move_card or transfer
\* moves a row's whole quantity to a place where the acting user has no row of
\* that printing and foil, the source row itself becomes the destination row:
\* only its deck id and owner change, and no row is created or deleted.
C23_Destination == IF op.name = "remove_card" THEN Box ELSE op.dst

C23_FullMoveToEmptyKey ==
  /\ Handled({"add_card", "remove_card", "move_card", "transfer"})
  /\ op.src \in DOMAIN pinv
  /\ op.qty = SrcRow.qty
  /\ Matches(pinv, op.actor, SrcRow.card, SrcRow.foil, C23_Destination) = {}

C23_InPlace ==
  C23_FullMoveToEmptyKey
  => /\ DOMAIN inv = DOMAIN pinv
     /\ inv = [pinv EXCEPT ![op.src].deck = C23_Destination, ![op.src].user = op.actor]

C25_There(I) == {j \in DOMAIN I : I[j].user = SrcRow.user /\ I[j].deck = SrcRow.deck}

C25_UnitsThere(I, c) == SumQty(I, {j \in C25_There(I) : I[j].card = c})

C25_OneUnitSubstituted ==
  (Handled({"edit_card"}) /\ op.dst # None /\ op.dst # SrcRow.card)
  => /\ SumQty(inv, C25_There(inv)) = SumQty(pinv, C25_There(pinv))
     /\ C25_UnitsThere(inv, SrcRow.card) = C25_UnitsThere(pinv, SrcRow.card) - 1
     /\ C25_UnitsThere(inv, op.dst) = C25_UnitsThere(pinv, op.dst) + 1

\* C26 (substitution stays in place): the row that receives the substituted
\* unit of an edit_card printing change has the owner, the deck id and the
\* sideboard flag of the source row: substituting the printing of a sideboard
\* row never moves a unit to the mainboard.
C26_Receivers ==
  {j \in DOMAIN inv :
     /\ inv[j].card = op.dst
     /\ \/ j \notin DOMAIN pinv
        \/ pinv[j].card # op.dst
        \/ inv[j].qty > pinv[j].qty}

C28_Letters ==
  {c \in Range(_COLOUR_ORDER) :
     \E k \in 1..Len(req) : req[k].card.exists /\ c \in Range(req[k].card.color_identity)}

C28_Position(c) == CHOOSE k \in 1..Len(_COLOUR_ORDER) : _COLOUR_ORDER[k] = c

C28_ColorIdentity ==
  (op.name \in {"_compute_color_identity", "reordered"})
  => /\ Range(result.ci) = C28_Letters
     /\ \A i \in 1..Len(result.ci), j \in 1..Len(result.ci) :
          i < j => C28_Position(result.ci[i]) < C28_Position(result.ci[j])
     /\ (C28_Letters = {}) => result.ci = << >>

\* three rows of different quantities, a colourless one among them, reordered:
\* the helper returned "WUG"
C28_Witness ==
  /\ op.name = "reordered"
  /\ Len(req) = 3
  /\ events # req
  /\ \E k \in 1..3 : req[k].card.color_identity = << >>
  /\ result.ci = <<"W", "U", "G">>

\* C29 (counts of the done event): successes is the number of progress events
\* with ok = true, and failures is the number of parse failures plus the number
\* of progress events with ok = false, so that successes + failures - parse
\* failures is the total announced by the start event.
C29_Progress(ok) ==
  Len(SelectSeq(events, LAMBDA e : e.type = "progress" /\ e.ok = ok))

C29_Total == (CHOOSE k \in 1..Len(events) : events[k].type = "start")

C29_ParseFailures ==
  Len((IF stream.moxfield /\ stream.kind # "box" THEN parse_moxfield_text(stream.text)
       ELSE parse_decklist(stream.text)).failures)

C29_DoneCounts ==
  (events # << >> /\ events[Len(events)].type = "done" /\ stream.has_import)
  => LET done == events[Len(events)] IN
     /\ done.successes = C29_Progress(TRUE)
     /\ done.failures = C29_ParseFailures + C29_Progress(FALSE)
     /\ done.successes + done.failures - C29_ParseFailures = events[C29_Total].total

\* C29, amended: successes is the sum of the quantities of the lines whose
\* progress event had ok = true (the number of cards imported, not of lines);
\* failures is the number of parse failures plus the number of progress events
\* with ok = false, and the progress events with ok = true together with
\* failures - parse failures make the total announced by the start event.
RECURSIVE C29_Cards(_)
C29_Cards(k) ==
  IF k = 0 THEN 0
  ELSE C29_Cards(k - 1)
       + (IF events[k].type = "progress" /\ events[k].ok
          THEN stream.parsed[events[k].current].quantity ELSE 0)

C29_DoneCountsCards ==
  (events # << >> /\ events[Len(events)].type = "done" /\ stream.has_import)
  => LET done == events[Len(events)] IN
     /\ done.successes = C29_Cards(Len(events))
     /\ done.failures = C29_ParseFailures + C29_Progress(FALSE)
     /\ C29_Progress(TRUE) + done.failures - C29_ParseFailures = events[C29_Total].total

\* a finished import of one line of 2 cards and one line that failed: the
\* done event counts 2 successes and 1 failure
C29_Witness ==
  /\ events # << >> /\ events[Len(events)].type = "done" /\ stream.has_import
  /\ events[Len(events)].successes = 2
  /\ events[Len(events)].failures = 1
  /\ C29_Progress(TRUE) = 1

\* C30 (cross-user frame): a Box import, a deck import, add_to_box, add_card,
\* remove_card, move_card, edit_card or delete_card by user X creates, changes
\* or deletes only rows owned by X: every row of another user is left as it
\* was and every row created is X's.  No request, transfer and delete_deck
\* included, changes the owner of an existing row.
C30_OwnRequests ==
  {"box_import", "deck_import", "moxfield_import", "add_to_box", "add_card",
   "remove_card", "move_card", "edit_card", "delete_card"}

C30_CrossUserFrame ==
  /\ op.name \in C30_OwnRequests
     => /\ \A j \in DOMAIN pinv :
             pinv[j].user # op.actor => (j \in DOMAIN inv /\ inv[j] = pinv[j])
        /\ \A j \in (DOMAIN inv) \ (DOMAIN pinv) : inv[j].user = op.actor
  /\ \A j \in (DOMAIN inv) \cap (DOMAIN pinv) : inv[j].user = pinv[j].user

\* user 2 moved a card from their Box into deck 1, which user 1 shares with
\* them and where user 1 has a row of the same printing and foil: user 2 now
\* has a row of their own in the deck
C30_Witness ==
  /\ op.name = "add_card" /\ op.out = "ok" /\ op.actor = 2 /\ op.dst = 1
  /\ \E j \in DOMAIN pinv :
       /\ pinv[j].user = 1 /\ pinv[j].deck = 1
       /\ pinv[j].card = SrcRow.card /\ pinv[j].foil = SrcRow.foil
       /\ inv[j] = pinv[j]
  /\ \E k \in DOMAIN inv : inv[k].user = 2 /\ inv[k].deck = 1 /\ inv[k].card = SrcRow.card

====
